---- MODULE Spec2Model ----
(***************************************************************************)
(* stdin_to_modbus_shm: the instruction parser (InputParser::parse, the    *)
(* integer and float codecs, split_string), the input thread that reads,   *)
(* parses and writes line by line, and the main thread that waits for it.  *)
(*                                                                         *)
(* Text is a sequence of one-character strings.  A 64-bit quantity         *)
(* (std::size_t, unsigned long long, long long, uint64_t) is a sequence of *)
(* 8 bytes, most significant byte first, so that every width of the        *)
(* program keeps its exact range and its wrap-around.                      *)
(***************************************************************************)
EXTENDS Integers, Sequences, FiniteSets, TLC

VARIABLES
    input,       \* how the line under test was put together (ghost)
    line,        \* the line handed to InputParser::parse
    base_addr,   \* --address-base
    base_value,  \* --value-base
    host,        \* byte order of the host: "little" or "big"
    pc,          \* position of the input thread
    result,      \* outcome of the call under test
    k,           \* index of the next Instruction the writer handles
    shm_do,      \* DO region: one byte per coil
    shm_di,      \* DI region: one byte per coil
    shm_ao,      \* AO region as raw bytes (two per register)
    shm_ai,      \* AI region as raw bytes (two per register)
    diag,        \* diagnostics printed to stderr
    wlog,        \* the register writes, in order (ghost)
    stdin,       \* the lines of the standard input
    nread,       \* number of lines read so far
    PASSTHROUGH, \* --passthrough
    INTERACTIVE, \* stdin is a terminal
    terminate,   \* static volatile bool terminate
    mutex_m,     \* std::mutex m: "free", or the thread that holds it
    semaphore,   \* the named semaphore: "none" (no --semaphore), "free", or its holder
    semaphore_error_counter,
    out,         \* the lines written to stdout
    main_pc,     \* position of the main thread
    calls        \* the calls of InputParser::parse with their outcomes (ghost)

vars == <<input, line, base_addr, base_value, host, pc, result, k,
          shm_do, shm_di, shm_ao, shm_ai, diag, wlog,
          stdin, nread, PASSTHROUGH, INTERACTIVE, terminate, mutex_m, semaphore,
          semaphore_error_counter, out, main_pc, calls>>

\* the command line options of the run
options == <<base_addr, base_value, host, PASSTHROUGH, INTERACTIVE>>

(***************************************************************************)
(* Characters                                                              *)
(***************************************************************************)
UpperChars == <<"A","B","C","D","E","F","G","H","I","J","K","L","M",
                "N","O","P","Q","R","S","T","U","V","W","X","Y","Z">>

LowerChars == <<"a","b","c","d","e","f","g","h","i","j","k","l","m",
                "n","o","p","q","r","s","t","u","v","w","x","y","z">>

DigitChars == <<"0","1","2","3","4","5","6","7","8","9">>

IndexOf(c, seq) ==
    IF \E i \in 1..Len(seq) : seq[i] = c
    THEN CHOOSE i \in 1..Len(seq) : seq[i] = c
    ELSE 0

\* std::tolower in the "C" locale
tolower(c) == IF IndexOf(c, UpperChars) > 0 THEN LowerChars[IndexOf(c, UpperChars)] ELSE c

\* std::isspace in the "C" locale (the characters the inputs can hold)
isspace(c) == c \in {" ", "\t"}

\* value of c as a digit, 36 when c is no digit in any base
DigitValue(c) ==
    IF IndexOf(c, DigitChars) > 0 THEN IndexOf(c, DigitChars) - 1
    ELSE IF IndexOf(c, LowerChars) > 0 THEN IndexOf(c, LowerChars) + 9
    ELSE IF IndexOf(c, UpperChars) > 0 THEN IndexOf(c, UpperChars) + 9
    ELSE 36

IsDigitIn(c, b) == DigitValue(c) < b

(***************************************************************************)
(* 64-bit words as 8 bytes, most significant first                         *)
(***************************************************************************)
U64Zero == <<0,0,0,0,0,0,0,0>>
U64Max  == <<255,255,255,255,255,255,255,255>>

\* x * b + d, with the carry out of bit 63
MulAdd(x, b, d) ==
    LET v8 == x[8] * b + d
        v7 == x[7] * b + v8 \div 256
        v6 == x[6] * b + v7 \div 256
        v5 == x[5] * b + v6 \div 256
        v4 == x[4] * b + v5 \div 256
        v3 == x[3] * b + v4 \div 256
        v2 == x[2] * b + v3 \div 256
        v1 == x[1] * b + v2 \div 256
    IN  [carry |-> v1 \div 256,
         out   |-> <<v1 % 256, v2 % 256, v3 % 256, v4 % 256,
                     v5 % 256, v6 % 256, v7 % 256, v8 % 256>>]

\* x + d modulo 2^64
U64Add(x, d) == MulAdd(x, 1, d).out

\* -x modulo 2^64 (two's complement)
U64Neg(x) == U64Add([i \in 1..8 |-> 255 - x[i]], 1)

\* unsigned comparison
U64Lt(a, b) == \E i \in 1..8 : a[i] < b[i] /\ \A j \in 1..(i - 1) : a[j] = b[j]

\* comparison of two's complement long long values
I64Lt(a, b) ==
    LET na == a[1] >= 128
        nb == b[1] >= 128
    IN  IF na /= nb THEN na ELSE U64Lt(a, b)

\* a small natural number as a 64-bit word
U64FromNat(n) ==
    <<0, 0, 0, 0, 0, (n \div 65536) % 256, (n \div 256) % 256, n % 256>>

\* static_cast<uint16_t>: the low 16 bits
CastU16(x) == x[7] * 256 + x[8]

(***************************************************************************)
(* split_string.hpp                                                        *)
(***************************************************************************)
\* std::string::npos
npos == -1

\* std::string::find(delimiter): offset of the leftmost occurrence, or npos
find(string, delimiter) ==
    LET n == Len(string)
        m == Len(delimiter)
        At(p) == \A j \in 1..m : string[p + j] = delimiter[j]
        hits == {p \in 0..(n - m) : At(p)}
    IN  IF hits = {} THEN npos ELSE CHOOSE p \in hits : \A q \in hits : p <= q

\* std::string::substr(0, pos)
substr0(string, pos) == SubSeq(string, 1, pos)

\* variant of erase: one character less is removed
erase0_one_less(string, count) == SubSeq(string, count, Len(string))

\* std::string::erase(0, count)
erase0(string, count) == SubSeq(string, count + 1, Len(string))

\* the default max_split, ~static_cast<std::size_t>(0): counting it down never
\* reaches 0 on a line of any length the program can hold
MAX_SPLIT_DEFAULT == -1

RECURSIVE split_string_loop(_, _, _, _)
split_string_loop(string, delimiter, max_split, acc) ==
    IF max_split /= 0 /\ find(string, delimiter) /= npos
    THEN LET pos == find(string, delimiter)
         IN  split_string_loop(erase0(string, pos + Len(delimiter)), delimiter,
                               max_split - 1, Append(acc, substr0(string, pos)))
    ELSE IF string /= <<>> THEN Append(acc, string) ELSE acc

\* variant of split_string: the remainder is appended even when it is empty
split_string_keeps_empty(string, delimiter, max_split) ==
    LET fields == split_string_loop(string, delimiter, max_split, <<>>)
        m      == Len(delimiter)
        n      == Len(string)
    IN  IF n = 0 \/ (n >= m /\ SubSeq(string, n - m + 1, n) = delimiter)
        THEN Append(fields, <<>>)
        ELSE fields

split_string(string, delimiter, max_split) ==
    split_string_loop(string, delimiter, max_split, <<>>)

(***************************************************************************)
(* std::stoull / std::stoll (strtoull / strtoll of the C library)          *)
(***************************************************************************)
\* index of the first character at or after i that is no white space
RECURSIVE SkipSpace(_, _)
SkipSpace(str, i) ==
    IF i <= Len(str) /\ isspace(str[i]) THEN SkipSpace(str, i + 1) ELSE i

\* index of the first character at or after i that is no digit of base b
RECURSIVE ScanDigits(_, _, _)
ScanDigits(str, i, b) ==
    IF i <= Len(str) /\ IsDigitIn(str[i], b) THEN ScanDigits(str, i + 1, b) ELSE i

\* the digits str[i..j-1] accumulated in base b: [out, ovf]; once the value
\* passes 2^64-1 the scan goes on and the result stays at the overflow mark
RECURSIVE Accumulate(_, _, _, _, _)
Accumulate(str, i, j, b, acc) ==
    IF i >= j THEN acc
    ELSE LET r == MulAdd(acc.out, b, DigitValue(str[i]))
         IN  IF acc.ovf \/ r.carry > 0
             THEN Accumulate(str, i + 1, j, b, [out |-> U64Max, ovf |-> TRUE])
             ELSE Accumulate(str, i + 1, j, b, [out |-> r.out, ovf |-> FALSE])

\* what strtoull/strtoll scan behind the white space that ends before ws:
\* sign, radix, the digit run [first, last)
ScanAt(str, base, ws) ==
    LET n      == Len(str)
        signed == ws <= n /\ str[ws] \in {"+", "-"}
        p      == IF signed THEN ws + 1 ELSE ws
        hexPfx == /\ base \in {0, 16}
                  /\ p + 2 <= n
                  /\ str[p] = "0"
                  /\ str[p + 1] \in {"x", "X"}
                  /\ IsDigitIn(str[p + 2], 16)
        b      == IF base /= 0 THEN base
                  ELSE IF hexPfx THEN 16
                  ELSE IF p <= n /\ str[p] = "0" THEN 8
                  ELSE 10
        first  == IF hexPfx THEN p + 2 ELSE p
        last   == ScanDigits(str, first, b)
    IN  [neg   |-> signed /\ str[ws] = "-",
         none  |-> last = first,
         idx   |-> last - 1,
         mag   |-> Accumulate(str, first, last, b, [out |-> U64Zero, ovf |-> FALSE])]

\* what strtoull/strtoll scan in str
Scan(str, base) == ScanAt(str, base, SkipSpace(str, 1))

\* the outcome of std::stoull for the scan s
StoullOf(s) ==
    IF s.none \/ s.mag.ovf
    THEN [throws |-> TRUE, idx |-> 0, ret |-> U64Zero]
    ELSE [throws |-> FALSE, idx |-> s.idx,
          ret |-> IF s.neg THEN U64Neg(s.mag.out) ELSE s.mag.out]

\* std::stoull(str, &idx, base): throws std::invalid_argument when no digit is
\* converted and std::out_of_range when the magnitude exceeds 2^64-1; a leading
\* minus negates the result modulo 2^64 (strtoull)
stoull(str, base) == StoullOf(Scan(str, base))

\* LLONG_MAX and the magnitude of LLONG_MIN
I64MaxMag == <<127,255,255,255,255,255,255,255>>
I64MinMag == <<128,0,0,0,0,0,0,0>>

\* the outcome of std::stoll for the scan s
StollOf(s) ==
    LET limit == IF s.neg THEN I64MinMag ELSE I64MaxMag
    IN  IF s.none \/ s.mag.ovf \/ U64Lt(limit, s.mag.out)
        THEN [throws |-> TRUE, idx |-> 0, ret |-> U64Zero]
        ELSE [throws |-> FALSE, idx |-> s.idx,
              ret |-> IF s.neg THEN U64Neg(s.mag.out) ELSE s.mag.out]

\* std::stoll(str, &idx, base): the result is a two's complement long long;
\* std::out_of_range outside [LLONG_MIN, LLONG_MAX]
stoll(str, base) == StollOf(Scan(str, base))

(***************************************************************************)
(* InputParser_int.hpp: parse_int<T>                                       *)
(***************************************************************************)
uint8_t  == [bits |-> 8,  signed |-> FALSE]
uint16_t == [bits |-> 16, signed |-> FALSE]
uint32_t == [bits |-> 32, signed |-> FALSE]
uint64_t == [bits |-> 64, signed |-> FALSE]
int8_t   == [bits |-> 8,  signed |-> TRUE]
int16_t  == [bits |-> 16, signed |-> TRUE]
int32_t  == [bits |-> 32, signed |-> TRUE]
int64_t  == [bits |-> 64, signed |-> TRUE]

IntTypes == {uint8_t, uint16_t, uint32_t, uint64_t, int8_t, int16_t, int32_t, int64_t}

\* sizeof(T)
SizeOf(T) == T.bits \div 8

\* std::numeric_limits<T>::max() converted to (unsigned) long long
numeric_limits_max(T) ==
    [i \in 1..8 |->
        IF i <= 8 - SizeOf(T) THEN 0
        ELSE IF T.signed /\ i = 9 - SizeOf(T) THEN 127
        ELSE 255]

\* std::numeric_limits<T>::min() (and lowest()) converted to (unsigned) long long
numeric_limits_min(T) ==
    [i \in 1..8 |->
        IF ~T.signed THEN 0
        ELSE IF i <= 8 - SizeOf(T) THEN 255
        ELSE IF i = 9 - SizeOf(T) THEN 128
        ELSE 0]

\* static_cast<T>: the low sizeof(T) bytes, most significant first
static_cast(T, x) == SubSeq(x, 9 - SizeOf(T), 8)

\* the string literals parse_int compares with
STR_min    == <<"m","i","n">>
STR_max    == <<"m","a","x">>
STR_lowest == <<"l","o","w","e","s","t">>

\* parse_int<T> for unsigned T behind the keywords, r the outcome of std::stoull
CheckUnsigned(T, value, r) ==
    LET idx   == IF r.throws THEN 0 ELSE r.idx
        fail1 == r.throws
        fail2 == fail1 \/ idx /= Len(value)
        fail3 == fail2 \/ U64Lt(numeric_limits_max(T), r.ret)
    IN  IF fail3 THEN [ok |-> FALSE, ret |-> <<>>]
        ELSE [ok |-> TRUE, ret |-> static_cast(T, r.ret)]

\* parse_int<T> for unsigned T: [ok, ret], ret the sizeof(T) bytes of the value
parse_int_unsigned(T, value, base) ==
    IF value = STR_min THEN [ok |-> TRUE, ret |-> static_cast(T, numeric_limits_min(T))]
    ELSE IF value = STR_max THEN [ok |-> TRUE, ret |-> static_cast(T, numeric_limits_max(T))]
    ELSE IF value = STR_lowest THEN [ok |-> TRUE, ret |-> static_cast(T, numeric_limits_min(T))]
    ELSE CheckUnsigned(T, value, stoull(value, base))

\* parse_int<T> for signed T behind the keywords, r the outcome of std::stoll
CheckSigned(T, value, r) ==
    LET idx   == IF r.throws THEN 0 ELSE r.idx
        fail1 == r.throws
        fail2 == fail1 \/ idx /= Len(value)
        fail3 == fail2 \/ I64Lt(numeric_limits_max(T), r.ret)
        fail4 == fail3 \/ I64Lt(r.ret, numeric_limits_min(T))
    IN  IF fail4 THEN [ok |-> FALSE, ret |-> <<>>]
        ELSE [ok |-> TRUE, ret |-> static_cast(T, r.ret)]

\* parse_int<T> for signed T
parse_int_signed(T, value, base) ==
    IF value = STR_min THEN [ok |-> TRUE, ret |-> static_cast(T, numeric_limits_min(T))]
    ELSE IF value = STR_max THEN [ok |-> TRUE, ret |-> static_cast(T, numeric_limits_max(T))]
    ELSE IF value = STR_lowest THEN [ok |-> TRUE, ret |-> static_cast(T, numeric_limits_min(T))]
    ELSE CheckSigned(T, value, stoll(value, base))

\* overload resolution by std::is_signed<T>
parse_int(T, value, base) ==
    IF T.signed THEN parse_int_signed(T, value, base) ELSE parse_int_unsigned(T, value, base)

(***************************************************************************)
(* cxxendian and the union views of the codecs                             *)
(***************************************************************************)
\* bytes of a value (most significant first) as they lie in host memory
HostMem(val, h) == IF h = "big" THEN val ELSE [i \in 1..Len(val) |-> val[Len(val) + 1 - i]]

\* the value (most significant byte first) that host memory holds
FromHostMem(mem, h) == IF h = "big" THEN mem ELSE [i \in 1..Len(mem) |-> mem[Len(mem) + 1 - i]]

\* byte swap of a value
bswap(val) == [i \in 1..Len(val) |-> val[Len(val) + 1 - i]]

\* cxxendian::BE_Int<T>(Host_Int<T>).get(), BE_Float<T>(Host_Float<T>).get()
BE_get(val, h) == IF h = "big" THEN val ELSE bswap(val)

\* cxxendian::LE_Int<T>(Host_Int<T>).get(), LE_Float<T>(Host_Float<T>).get()
LE_get(val, h) == IF h = "little" THEN val ELSE bswap(val)

\* union { uint16_t reg[n]; T i; }: reg[j] read back after i = val
UnionRegs(val, h) ==
    LET mem == HostMem(val, h)
    IN  [j \in 0..(Len(val) \div 2 - 1) |->
            LET w == FromHostMem(<<mem[2 * j + 1], mem[2 * j + 2]>>, h)
            IN  w[1] * 256 + w[2]]

\* union { uint16_t reg; uint8_t i[2]; }: reg read back after i[0] = b0, i[1] = b1
UnionReg8(b0, b1, h) ==
    LET w == FromHostMem(<<b0, b1>>, h)
    IN  w[1] * 256 + w[2]

\* Instruction(register_type, address, value)
Instruction(register_type, address, value) ==
    [register_type |-> register_type, address |-> address, value |-> value]

\* a codec's return value, and the std::invalid_argument it throws
Returns(instructions) == [ok |-> TRUE, what |-> "", instructions |-> instructions]
Throws(what) == [ok |-> FALSE, what |-> what, instructions |-> <<>>]


(***************************************************************************)
(* InputParser_int.hpp: the integer codecs                                 *)
(***************************************************************************)

parse_u8_lo(type, addr, value, base, h) ==
    LET convert(v) ==
            IF ~v.ok THEN Throws("Failed to parse value")
            ELSE LET reg == UnionReg8(v.ret[1], 0, h)
                 IN  Returns(<<Instruction(type, addr, reg)>>)
    IN  convert(parse_int(uint8_t, value, base))

parse_u8_hi(type, addr, value, base, h) ==
    LET convert(v) ==
            IF ~v.ok THEN Throws("Failed to parse value")
            ELSE LET reg == UnionReg8(0, v.ret[1], h)
                 IN  Returns(<<Instruction(type, addr, reg)>>)
    IN  convert(parse_int(uint8_t, value, base))

parse_i8_lo(type, addr, value, base, h) ==
    LET convert(v) ==
            IF ~v.ok THEN Throws("Failed to parse value")
            ELSE LET reg == UnionReg8(v.ret[1], 0, h)
                 IN  Returns(<<Instruction(type, addr, reg)>>)
    IN  convert(parse_int(int8_t, value, base))

parse_i8_hi(type, addr, value, base, h) ==
    LET convert(v) ==
            IF ~v.ok THEN Throws("Failed to parse value")
            ELSE LET reg == UnionReg8(0, v.ret[1], h)
                 IN  Returns(<<Instruction(type, addr, reg)>>)
    IN  convert(parse_int(int8_t, value, base))

parse_u16_ab(type, addr, value, base, h) ==
    LET convert(hi) ==
            IF ~hi.ok THEN Throws("Failed to parse value")
            ELSE LET reg == UnionRegs(BE_get(hi.ret, h), h)
                 IN  Returns(<<Instruction(type, addr, reg[0])>>)
    IN  convert(parse_int(uint16_t, value, base))

parse_u16_ba(type, addr, value, base, h) ==
    LET convert(hi) ==
            IF ~hi.ok THEN Throws("Failed to parse value")
            ELSE LET reg == UnionRegs(LE_get(hi.ret, h), h)
                 IN  Returns(<<Instruction(type, addr, reg[0])>>)
    IN  convert(parse_int(uint16_t, value, base))

parse_i16_ab(type, addr, value, base, h) ==
    LET convert(hi) ==
            IF ~hi.ok THEN Throws("Failed to parse value")
            ELSE LET reg == UnionRegs(BE_get(hi.ret, h), h)
                 IN  Returns(<<Instruction(type, addr, reg[0])>>)
    IN  convert(parse_int(int16_t, value, base))

parse_i16_ba(type, addr, value, base, h) ==
    LET convert(hi) ==
            IF ~hi.ok THEN Throws("Failed to parse value")
            ELSE LET reg == UnionRegs(LE_get(hi.ret, h), h)
                 IN  Returns(<<Instruction(type, addr, reg[0])>>)
    IN  convert(parse_int(int16_t, value, base))

parse_u32abcd(type, addr, value, base, h) ==
    LET convert(hi) ==
            IF ~hi.ok THEN Throws("Failed to parse value")
            ELSE LET reg == UnionRegs(BE_get(hi.ret, h), h)
                 IN  Returns(<<Instruction(type, addr, reg[0]),
                               Instruction(type, U64Add(addr, 1), reg[1])>>)
    IN  convert(parse_int(uint32_t, value, base))

parse_u32dcba(type, addr, value, base, h) ==
    LET convert(hi) ==
            IF ~hi.ok THEN Throws("Failed to parse value")
            ELSE LET reg == UnionRegs(LE_get(hi.ret, h), h)
                 IN  Returns(<<Instruction(type, addr, reg[0]),
                               Instruction(type, U64Add(addr, 1), reg[1])>>)
    IN  convert(parse_int(uint32_t, value, base))

\* variant of parse_u32cdab: the registers are emitted in normal order
parse_u32cdab_normal_order(type, addr, value, base, h) ==
    LET convert(hi) ==
            IF ~hi.ok THEN Throws("Failed to parse value")
            ELSE LET reg == UnionRegs(BE_get(hi.ret, h), h)
                 IN  Returns(<<Instruction(type, addr, reg[0]),
                               Instruction(type, U64Add(addr, 1), reg[1])>>)
    IN  convert(parse_int(uint32_t, value, base))

parse_u32cdab(type, addr, value, base, h) ==
    LET convert(hi) ==
            IF ~hi.ok THEN Throws("Failed to parse value")
            ELSE LET reg == UnionRegs(BE_get(hi.ret, h), h)
                 IN  Returns(<<Instruction(type, addr, reg[1]),
                               Instruction(type, U64Add(addr, 1), reg[0])>>)
    IN  convert(parse_int(uint32_t, value, base))

parse_u32badc(type, addr, value, base, h) ==
    LET convert(hi) ==
            IF ~hi.ok THEN Throws("Failed to parse value")
            ELSE LET reg == UnionRegs(LE_get(hi.ret, h), h)
                 IN  Returns(<<Instruction(type, addr, reg[1]),
                               Instruction(type, U64Add(addr, 1), reg[0])>>)
    IN  convert(parse_int(uint32_t, value, base))

parse_i32abcd(type, addr, value, base, h) ==
    LET convert(hi) ==
            IF ~hi.ok THEN Throws("Failed to parse value")
            ELSE LET reg == UnionRegs(BE_get(hi.ret, h), h)
                 IN  Returns(<<Instruction(type, addr, reg[0]),
                               Instruction(type, U64Add(addr, 1), reg[1])>>)
    IN  convert(parse_int(int32_t, value, base))

parse_i32dcba(type, addr, value, base, h) ==
    LET convert(hi) ==
            IF ~hi.ok THEN Throws("Failed to parse value")
            ELSE LET reg == UnionRegs(LE_get(hi.ret, h), h)
                 IN  Returns(<<Instruction(type, addr, reg[0]),
                               Instruction(type, U64Add(addr, 1), reg[1])>>)
    IN  convert(parse_int(int32_t, value, base))

parse_i32cdab(type, addr, value, base, h) ==
    LET convert(hi) ==
            IF ~hi.ok THEN Throws("Failed to parse value")
            ELSE LET reg == UnionRegs(BE_get(hi.ret, h), h)
                 IN  Returns(<<Instruction(type, addr, reg[1]),
                               Instruction(type, U64Add(addr, 1), reg[0])>>)
    IN  convert(parse_int(int32_t, value, base))

parse_i32badc(type, addr, value, base, h) ==
    LET convert(hi) ==
            IF ~hi.ok THEN Throws("Failed to parse value")
            ELSE LET reg == UnionRegs(LE_get(hi.ret, h), h)
                 IN  Returns(<<Instruction(type, addr, reg[1]),
                               Instruction(type, U64Add(addr, 1), reg[0])>>)
    IN  convert(parse_int(int32_t, value, base))

parse_u64abcdefgh(type, addr, value, base, h) ==
    LET convert(hi) ==
            IF ~hi.ok THEN Throws("Failed to parse value")
            ELSE LET reg == UnionRegs(BE_get(hi.ret, h), h)
                 IN  Returns(<<Instruction(type, addr, reg[0]),
                               Instruction(type, U64Add(addr, 1), reg[1]),
                               Instruction(type, U64Add(addr, 2), reg[2]),
                               Instruction(type, U64Add(addr, 3), reg[3])>>)
    IN  convert(parse_int(uint64_t, value, base))

parse_u64hgfedcba(type, addr, value, base, h) ==
    LET convert(hi) ==
            IF ~hi.ok THEN Throws("Failed to parse value")
            ELSE LET reg == UnionRegs(LE_get(hi.ret, h), h)
                 IN  Returns(<<Instruction(type, addr, reg[0]),
                               Instruction(type, U64Add(addr, 1), reg[1]),
                               Instruction(type, U64Add(addr, 2), reg[2]),
                               Instruction(type, U64Add(addr, 3), reg[3])>>)
    IN  convert(parse_int(uint64_t, value, base))

\* variant of parse_u64ghefcdab: the registers are swapped in pairs
parse_u64ghefcdab_pairwise(type, addr, value, base, h) ==
    LET convert(hi) ==
            IF ~hi.ok THEN Throws("Failed to parse value")
            ELSE LET reg == UnionRegs(BE_get(hi.ret, h), h)
                 IN  Returns(<<Instruction(type, addr, reg[1]),
                               Instruction(type, U64Add(addr, 1), reg[0]),
                               Instruction(type, U64Add(addr, 2), reg[3]),
                               Instruction(type, U64Add(addr, 3), reg[2])>>)
    IN  convert(parse_int(uint64_t, value, base))

parse_u64ghefcdab(type, addr, value, base, h) ==
    LET convert(hi) ==
            IF ~hi.ok THEN Throws("Failed to parse value")
            ELSE LET reg == UnionRegs(BE_get(hi.ret, h), h)
                 IN  Returns(<<Instruction(type, addr, reg[3]),
                               Instruction(type, U64Add(addr, 1), reg[2]),
                               Instruction(type, U64Add(addr, 2), reg[1]),
                               Instruction(type, U64Add(addr, 3), reg[0])>>)
    IN  convert(parse_int(uint64_t, value, base))

parse_u64badcfehg(type, addr, value, base, h) ==
    LET convert(hi) ==
            IF ~hi.ok THEN Throws("Failed to parse value")
            ELSE LET reg == UnionRegs(LE_get(hi.ret, h), h)
                 IN  Returns(<<Instruction(type, addr, reg[3]),
                               Instruction(type, U64Add(addr, 1), reg[2]),
                               Instruction(type, U64Add(addr, 2), reg[1]),
                               Instruction(type, U64Add(addr, 3), reg[0])>>)
    IN  convert(parse_int(uint64_t, value, base))

parse_i64abcdefgh(type, addr, value, base, h) ==
    LET convert(hi) ==
            IF ~hi.ok THEN Throws("Failed to parse value")
            ELSE LET reg == UnionRegs(BE_get(hi.ret, h), h)
                 IN  Returns(<<Instruction(type, addr, reg[0]),
                               Instruction(type, U64Add(addr, 1), reg[1]),
                               Instruction(type, U64Add(addr, 2), reg[2]),
                               Instruction(type, U64Add(addr, 3), reg[3])>>)
    IN  convert(parse_int(int64_t, value, base))

parse_i64hgfedcba(type, addr, value, base, h) ==
    LET convert(hi) ==
            IF ~hi.ok THEN Throws("Failed to parse value")
            ELSE LET reg == UnionRegs(LE_get(hi.ret, h), h)
                 IN  Returns(<<Instruction(type, addr, reg[0]),
                               Instruction(type, U64Add(addr, 1), reg[1]),
                               Instruction(type, U64Add(addr, 2), reg[2]),
                               Instruction(type, U64Add(addr, 3), reg[3])>>)
    IN  convert(parse_int(int64_t, value, base))

parse_i64ghefcdab(type, addr, value, base, h) ==
    LET convert(hi) ==
            IF ~hi.ok THEN Throws("Failed to parse value")
            ELSE LET reg == UnionRegs(BE_get(hi.ret, h), h)
                 IN  Returns(<<Instruction(type, addr, reg[3]),
                               Instruction(type, U64Add(addr, 1), reg[2]),
                               Instruction(type, U64Add(addr, 2), reg[1]),
                               Instruction(type, U64Add(addr, 3), reg[0])>>)
    IN  convert(parse_int(int64_t, value, base))

parse_i64badcfehg(type, addr, value, base, h) ==
    LET convert(hi) ==
            IF ~hi.ok THEN Throws("Failed to parse value")
            ELSE LET reg == UnionRegs(LE_get(hi.ret, h), h)
                 IN  Returns(<<Instruction(type, addr, reg[3]),
                               Instruction(type, U64Add(addr, 1), reg[2]),
                               Instruction(type, U64Add(addr, 2), reg[1]),
                               Instruction(type, U64Add(addr, 3), reg[0])>>)
    IN  convert(parse_int(int64_t, value, base))

(***************************************************************************)
(* InputParser_float.hpp: parse_float / parse_double                       *)
(***************************************************************************)
\* the decimal and hexadecimal literals the inputs hold, with the IEEE 754
\* single and double nearest to each (bytes, most significant first); an empty
\* f32 marks a literal outside the range of float (std::out_of_range)
FLOAT_LITERALS == {
    [txt |-> <<"0">>, f32 |-> <<0,0,0,0>>, f64 |-> <<0,0,0,0,0,0,0,0>>],
    [txt |-> <<"1">>, f32 |-> <<63,128,0,0>>, f64 |-> <<63,240,0,0,0,0,0,0>>],
    [txt |-> <<"5">>, f32 |-> <<64,160,0,0>>, f64 |-> <<64,20,0,0,0,0,0,0>>],
    [txt |-> <<"7">>, f32 |-> <<64,224,0,0>>, f64 |-> <<64,28,0,0,0,0,0,0>>],
    [txt |-> <<"+","5">>, f32 |-> <<64,160,0,0>>, f64 |-> <<64,20,0,0,0,0,0,0>>],
    [txt |-> <<"+","7">>, f32 |-> <<64,224,0,0>>, f64 |-> <<64,28,0,0,0,0,0,0>>],
    [txt |-> <<"-","0">>, f32 |-> <<128,0,0,0>>, f64 |-> <<128,0,0,0,0,0,0,0>>],
    [txt |-> <<"-","1">>, f32 |-> <<191,128,0,0>>, f64 |-> <<191,240,0,0,0,0,0,0>>],
    [txt |-> <<"0","0">>, f32 |-> <<0,0,0,0>>, f64 |-> <<0,0,0,0,0,0,0,0>>],
    [txt |-> <<"1","0">>, f32 |-> <<65,32,0,0>>, f64 |-> <<64,36,0,0,0,0,0,0>>],
    [txt |-> <<"1","2">>, f32 |-> <<65,64,0,0>>, f64 |-> <<64,40,0,0,0,0,0,0>>],
    [txt |-> <<"-","8","1">>, f32 |-> <<194,162,0,0>>, f64 |-> <<192,84,64,0,0,0,0,0>>],
    [txt |-> <<"0","1","0">>, f32 |-> <<65,32,0,0>>, f64 |-> <<64,36,0,0,0,0,0,0>>],
    [txt |-> <<"1",".","5">>, f32 |-> <<63,192,0,0>>, f64 |-> <<63,248,0,0,0,0,0,0>>],
    [txt |-> <<"1","2","7">>, f32 |-> <<66,254,0,0>>, f64 |-> <<64,95,192,0,0,0,0,0>>],
    [txt |-> <<"1","2","8">>, f32 |-> <<67,0,0,0>>, f64 |-> <<64,96,0,0,0,0,0,0>>],
    [txt |-> <<"2","5","5">>, f32 |-> <<67,127,0,0>>, f64 |-> <<64,111,224,0,0,0,0,0>>],
    [txt |-> <<"2","5","6">>, f32 |-> <<67,128,0,0>>, f64 |-> <<64,112,0,0,0,0,0,0>>],
    [txt |-> <<"i","n","f">>, f32 |-> <<127,128,0,0>>, f64 |-> <<127,240,0,0,0,0,0,0>>],
    [txt |-> <<"n","a","n">>, f32 |-> <<127,192,0,0>>, f64 |-> <<127,248,0,0,0,0,0,0>>],
    [txt |-> <<"-","1","2","8">>, f32 |-> <<195,0,0,0>>, f64 |-> <<192,96,0,0,0,0,0,0>>],
    [txt |-> <<"-","1","2","9">>, f32 |-> <<195,1,0,0>>, f64 |-> <<192,96,32,0,0,0,0,0>>],
    [txt |-> <<"0","x","1","0">>, f32 |-> <<65,128,0,0>>, f64 |-> <<64,48,0,0,0,0,0,0>>],
    [txt |-> <<"0","x","8","1">>, f32 |-> <<67,1,0,0>>, f64 |-> <<64,96,32,0,0,0,0,0>>],
    [txt |-> <<"0","x","f","f">>, f32 |-> <<67,127,0,0>>, f64 |-> <<64,111,224,0,0,0,0,0>>],
    [txt |-> <<"1","0","0","0","0">>, f32 |-> <<70,28,64,0>>, f64 |-> <<64,195,136,0,0,0,0,0>>],
    [txt |-> <<"3","2","7","6","7">>, f32 |-> <<70,255,254,0>>, f64 |-> <<64,223,255,192,0,0,0,0>>],
    [txt |-> <<"3","2","7","6","8">>, f32 |-> <<71,0,0,0>>, f64 |-> <<64,224,0,0,0,0,0,0>>],
    [txt |-> <<"6","5","5","3","5">>, f32 |-> <<71,127,255,0>>, f64 |-> <<64,239,255,224,0,0,0,0>>],
    [txt |-> <<"6","5","5","3","6">>, f32 |-> <<71,128,0,0>>, f64 |-> <<64,240,0,0,0,0,0,0>>],
    [txt |-> <<"6","5","5","3","7">>, f32 |-> <<71,128,0,128>>, f64 |-> <<64,240,0,16,0,0,0,0>>],
    [txt |-> <<"-","3","2","7","6","8">>, f32 |-> <<199,0,0,0>>, f64 |-> <<192,224,0,0,0,0,0,0>>],
    [txt |-> <<"-","3","2","7","6","9">>, f32 |-> <<199,0,1,0>>, f64 |-> <<192,224,0,32,0,0,0,0>>],
    [txt |-> <<"0","x","0","1","2","3">>, f32 |-> <<67,145,128,0>>, f64 |-> <<64,114,48,0,0,0,0,0>>],
    [txt |-> <<"0","x","f","e","d","c">>, f32 |-> <<71,126,220,0>>, f64 |-> <<64,239,219,128,0,0,0,0>>],
    [txt |-> <<"-","0","x","0","1","2","3">>, f32 |-> <<195,145,128,0>>, f64 |-> <<192,114,48,0,0,0,0,0>>],
    [txt |-> <<"0","x","0","1","2","3","4","5","6","7">>, f32 |-> <<75,145,162,180>>, f64 |-> <<65,114,52,86,112,0,0,0>>],
    [txt |-> <<"2","1","4","7","4","8","3","6","4","7">>, f32 |-> <<79,0,0,0>>, f64 |-> <<65,223,255,255,255,192,0,0>>],
    [txt |-> <<"2","1","4","7","4","8","3","6","4","8">>, f32 |-> <<79,0,0,0>>, f64 |-> <<65,224,0,0,0,0,0,0>>],
    [txt |-> <<"4","2","9","4","9","6","7","2","9","5">>, f32 |-> <<79,128,0,0>>, f64 |-> <<65,239,255,255,255,224,0,0>>],
    [txt |-> <<"4","2","9","4","9","6","7","2","9","6">>, f32 |-> <<79,128,0,0>>, f64 |-> <<65,240,0,0,0,0,0,0>>],
    [txt |-> <<"-","2","1","4","7","4","8","3","6","4","8">>, f32 |-> <<207,0,0,0>>, f64 |-> <<193,224,0,0,0,0,0,0>>],
    [txt |-> <<"-","2","1","4","7","4","8","3","6","4","9">>, f32 |-> <<207,0,0,0>>, f64 |-> <<193,224,0,0,0,32,0,0>>],
    [txt |-> <<"0","x","0","1","2","3","4","5","6","7","8","9","a","b","c","d","e","f">>, f32 |-> <<91,145,162,180>>, f64 |-> <<67,114,52,86,120,154,188,223>>],
    [txt |-> <<"0","x","8","1","2","3","4","5","6","7","8","9","a","b","c","d","e","f">>, f32 |-> <<95,1,35,69>>, f64 |-> <<67,224,36,104,172,241,53,122>>],
    [txt |-> <<"9","2","2","3","3","7","2","0","3","6","8","5","4","7","7","5","8","0","7">>, f32 |-> <<95,0,0,0>>, f64 |-> <<67,224,0,0,0,0,0,0>>],
    [txt |-> <<"9","2","2","3","3","7","2","0","3","6","8","5","4","7","7","5","8","0","8">>, f32 |-> <<95,0,0,0>>, f64 |-> <<67,224,0,0,0,0,0,0>>],
    [txt |-> <<"-","9","2","2","3","3","7","2","0","3","6","8","5","4","7","7","5","8","0","8">>, f32 |-> <<223,0,0,0>>, f64 |-> <<195,224,0,0,0,0,0,0>>],
    [txt |-> <<"-","9","2","2","3","3","7","2","0","3","6","8","5","4","7","7","5","8","0","9">>, f32 |-> <<223,0,0,0>>, f64 |-> <<195,224,0,0,0,0,0,0>>],
    [txt |-> <<"1","8","4","4","6","7","4","4","0","7","3","7","0","9","5","5","1","6","1","5">>, f32 |-> <<95,128,0,0>>, f64 |-> <<67,240,0,0,0,0,0,0>>],
    [txt |-> <<"1","8","4","4","6","7","4","4","0","7","3","7","0","9","5","5","1","6","1","6">>, f32 |-> <<95,128,0,0>>, f64 |-> <<67,240,0,0,0,0,0,0>>],
    [txt |-> <<"-","1","8","4","4","6","7","4","4","0","7","3","7","0","9","5","5","1","6","1","5">>, f32 |-> <<223,128,0,0>>, f64 |-> <<195,240,0,0,0,0,0,0>>],
    [txt |-> <<"0",".","6","9","3","1","4","7","1","8","0","5","5","9","9","4","5","3","0","9","4","1">>, f32 |-> <<63,49,114,24>>, f64 |-> <<63,230,46,66,254,250,57,239>>],
    [txt |-> <<"1",".","4","1","4","2","1","3","5","6","2","3","7","3","0","9","5","0","4","8","8","0">>, f32 |-> <<63,181,4,243>>, f64 |-> <<63,246,160,158,102,127,59,205>>],
    [txt |-> <<"1",".","6","1","8","0","3","3","9","8","8","7","4","9","8","9","4","8","4","8","2","0">>, f32 |-> <<63,207,27,189>>, f64 |-> <<63,249,227,119,155,151,244,168>>],
    [txt |-> <<"1",".","7","3","2","0","5","0","8","0","7","5","6","8","8","7","7","2","9","3","5","2">>, f32 |-> <<63,221,179,215>>, f64 |-> <<63,251,182,122,232,88,76,170>>],
    [txt |-> <<"2",".","7","1","8","2","8","1","8","2","8","4","5","9","0","4","5","2","3","5","3","6">>, f32 |-> <<64,45,248,84>>, f64 |-> <<64,5,191,10,139,20,87,105>>],
    [txt |-> <<"3",".","1","4","1","5","9","2","6","5","3","5","8","9","7","9","3","2","3","8","4","6">>, f32 |-> <<64,73,15,219>>, f64 |-> <<64,9,33,251,84,68,45,24>>],
    [txt |-> <<"-","3",".","1","4","1","5","9","2","6","5","3","5","8","9","7","9","3","2","3","8","4","6">>, f32 |-> <<192,73,15,219>>, f64 |-> <<192,9,33,251,84,68,45,24>>]
}

STR_nan      == <<"n","a","n">>
STR_inf      == <<"i","n","f">>
STR_ninf     == <<"-","i","n","f">>
STR_infinity == <<"i","n","f","i","n","i","t","y">>

\* quiet_NaN(), infinity() and -infinity() of float and double
F32_NAN  == <<127,192,0,0>>
F32_INF  == <<127,128,0,0>>
F32_NINF == <<255,128,0,0>>
F64_NAN  == <<127,248,0,0,0,0,0,0>>
F64_INF  == <<127,240,0,0,0,0,0,0>>
F64_NINF == <<255,240,0,0,0,0,0,0>>

\* whether str holds word at index p (letters compared without case)
HasWordAt(str, p, word) ==
    /\ p + Len(word) - 1 <= Len(str)
    /\ \A j \in 1..Len(word) : tolower(str[p + j - 1]) = word[j]

\* the mantissa of a floating literal from first in base b: [digits, manEnd]
FloatMantissa(str, first, b) ==
    LET n == Len(str)
        fraction(intEnd) ==
            LET frEnd  == IF intEnd <= n /\ str[intEnd] = "."
                          THEN ScanDigits(str, intEnd + 1, b) ELSE intEnd
                digits == (intEnd - first) + (IF frEnd > intEnd THEN frEnd - intEnd - 1 ELSE 0)
            IN  [digits |-> digits, manEnd |-> IF digits = 0 THEN first ELSE frEnd]
    IN  fraction(ScanDigits(str, first, b))

\* the end of the exponent part at manEnd, manEnd when there is none
FloatExponent(str, manEnd, expCh) ==
    LET n      == Len(str)
        eSign  == manEnd + 1 <= n /\ str[manEnd + 1] \in {"+", "-"}
        eFirst == IF eSign THEN manEnd + 2 ELSE manEnd + 1
        eEnd   == ScanDigits(str, eFirst, 10)
    IN  IF manEnd <= n /\ str[manEnd] \in expCh /\ eEnd > eFirst THEN eEnd ELSE manEnd

\* where the scan stops behind the mantissa m: [none, idx, lit]
FloatStop(str, ws, p, expCh, m) ==
    LET last == IF m.digits > 0 THEN FloatExponent(str, m.manEnd, expCh) ELSE m.manEnd
        word == IF HasWordAt(str, p, STR_infinity) THEN p + Len(STR_infinity)
                ELSE IF HasWordAt(str, p, STR_inf) THEN p + Len(STR_inf)
                ELSE IF HasWordAt(str, p, STR_nan) THEN p + Len(STR_nan)
                ELSE p
        stop == IF word > p THEN word ELSE last
    IN  [none |-> stop = p \/ (word = p /\ m.digits = 0),
         idx  |-> stop - 1,
         lit  |-> SubSeq(str, ws, stop - 1)]

\* what strtof/strtod scan behind the white space that ends before ws: sign,
\* then infinity, nan, a hexadecimal or a decimal floating literal
FloatScanAt(str, ws) ==
    LET n      == Len(str)
        signed == ws <= n /\ str[ws] \in {"+", "-"}
        p      == IF signed THEN ws + 1 ELSE ws
        isHex  == /\ p + 2 <= n
                  /\ str[p] = "0"
                  /\ str[p + 1] \in {"x", "X"}
                  /\ \/ IsDigitIn(str[p + 2], 16)
                     \/ str[p + 2] = "." /\ p + 3 <= n /\ IsDigitIn(str[p + 3], 16)
        b      == IF isHex THEN 16 ELSE 10
        first  == IF isHex THEN p + 2 ELSE p
        expCh  == IF isHex THEN {"p", "P"} ELSE {"e", "E"}
    IN  FloatStop(str, ws, p, expCh, FloatMantissa(str, first, b))

\* what strtof/strtod scan in str: [none, idx, lit]
FloatScan(str) == FloatScanAt(str, SkipSpace(str, 1))

\* whether the literal is one whose value the model holds
FloatKnown(lit) == \E e \in FLOAT_LITERALS : e.txt = lit

FloatEntry(lit) == CHOOSE e \in FLOAT_LITERALS : e.txt = lit

\* std::stof(str, &idx): throws when nothing converts or the value is out of range
stof(str) ==
    LET convert(s) ==
            IF s.none \/ ~FloatKnown(s.lit) \/ FloatEntry(s.lit).f32 = <<>>
            THEN [throws |-> TRUE, idx |-> 0, ret |-> <<>>]
            ELSE [throws |-> FALSE, idx |-> s.idx, ret |-> FloatEntry(s.lit).f32]
    IN  convert(FloatScan(str))

\* std::stod(str, &idx)
stod(str) ==
    LET convert(s) ==
            IF s.none \/ ~FloatKnown(s.lit)
            THEN [throws |-> TRUE, idx |-> 0, ret |-> <<>>]
            ELSE [throws |-> FALSE, idx |-> s.idx, ret |-> FloatEntry(s.lit).f64]
    IN  convert(FloatScan(str))

\* parse_float: the branches for min, max, epsilon and lowest evaluate the limit
\* and discard it, so those tokens reach std::stof like any other
parse_float(value) ==
    IF value = STR_nan THEN [ok |-> TRUE, ret |-> F32_NAN]
    ELSE IF value = STR_inf THEN [ok |-> TRUE, ret |-> F32_INF]
    ELSE IF value = STR_ninf THEN [ok |-> TRUE, ret |-> F32_NINF]
    ELSE LET check(r) ==
                 LET idx  == IF r.throws THEN 0 ELSE r.idx
                     fail == r.throws \/ idx /= Len(value)
                 IN  IF fail THEN [ok |-> FALSE, ret |-> <<>>]
                     ELSE [ok |-> TRUE, ret |-> r.ret]
         IN  check(stof(value))

\* parse_double
parse_double(value) ==
    IF value = STR_nan THEN [ok |-> TRUE, ret |-> F64_NAN]
    ELSE IF value = STR_inf THEN [ok |-> TRUE, ret |-> F64_INF]
    ELSE IF value = STR_ninf THEN [ok |-> TRUE, ret |-> F64_NINF]
    ELSE LET check(r) ==
                 LET idx  == IF r.throws THEN 0 ELSE r.idx
                     fail == r.throws \/ idx /= Len(value)
                 IN  IF fail THEN [ok |-> FALSE, ret |-> <<>>]
                     ELSE [ok |-> TRUE, ret |-> r.ret]
         IN  check(stod(value))

(***************************************************************************)
(* InputParser_float.hpp: the float codecs                                 *)
(***************************************************************************)

parse_f32abcd(type, addr, value, base, h) ==
    LET convert(hi) ==
            IF ~hi.ok THEN Throws("Failed to parse value")
            ELSE LET reg == UnionRegs(BE_get(hi.ret, h), h)
                 IN  Returns(<<Instruction(type, addr, reg[0]),
                               Instruction(type, U64Add(addr, 1), reg[1])>>)
    IN  convert(parse_float(value))

parse_f32cdab(type, addr, value, base, h) ==
    LET convert(hi) ==
            IF ~hi.ok THEN Throws("Failed to parse value")
            ELSE LET reg == UnionRegs(BE_get(hi.ret, h), h)
                 IN  Returns(<<Instruction(type, addr, reg[1]),
                               Instruction(type, U64Add(addr, 1), reg[0])>>)
    IN  convert(parse_float(value))

parse_f32dcba(type, addr, value, base, h) ==
    LET convert(hi) ==
            IF ~hi.ok THEN Throws("Failed to parse value")
            ELSE LET reg == UnionRegs(LE_get(hi.ret, h), h)
                 IN  Returns(<<Instruction(type, addr, reg[0]),
                               Instruction(type, U64Add(addr, 1), reg[1])>>)
    IN  convert(parse_float(value))

parse_f32badc(type, addr, value, base, h) ==
    LET convert(hi) ==
            IF ~hi.ok THEN Throws("Failed to parse value")
            ELSE LET reg == UnionRegs(LE_get(hi.ret, h), h)
                 IN  Returns(<<Instruction(type, addr, reg[1]),
                               Instruction(type, U64Add(addr, 1), reg[0])>>)
    IN  convert(parse_float(value))

parse_f64abcdefgh(type, addr, value, base, h) ==
    LET convert(hi) ==
            IF ~hi.ok THEN Throws("Failed to parse value")
            ELSE LET reg == UnionRegs(BE_get(hi.ret, h), h)
                 IN  Returns(<<Instruction(type, addr, reg[0]),
                               Instruction(type, U64Add(addr, 1), reg[1]),
                               Instruction(type, U64Add(addr, 2), reg[2]),
                               Instruction(type, U64Add(addr, 3), reg[3])>>)
    IN  convert(parse_double(value))

parse_f64hgfedcba(type, addr, value, base, h) ==
    LET convert(hi) ==
            IF ~hi.ok THEN Throws("Failed to parse value")
            ELSE LET reg == UnionRegs(LE_get(hi.ret, h), h)
                 IN  Returns(<<Instruction(type, addr, reg[0]),
                               Instruction(type, U64Add(addr, 1), reg[1]),
                               Instruction(type, U64Add(addr, 2), reg[2]),
                               Instruction(type, U64Add(addr, 3), reg[3])>>)
    IN  convert(parse_double(value))

parse_f64ghefcdab(type, addr, value, base, h) ==
    LET convert(hi) ==
            IF ~hi.ok THEN Throws("Failed to parse value")
            ELSE LET reg == UnionRegs(BE_get(hi.ret, h), h)
                 IN  Returns(<<Instruction(type, addr, reg[3]),
                               Instruction(type, U64Add(addr, 1), reg[2]),
                               Instruction(type, U64Add(addr, 2), reg[1]),
                               Instruction(type, U64Add(addr, 3), reg[0])>>)
    IN  convert(parse_double(value))

parse_f64badcfehg(type, addr, value, base, h) ==
    LET convert(hi) ==
            IF ~hi.ok THEN Throws("Failed to parse value")
            ELSE LET reg == UnionRegs(LE_get(hi.ret, h), h)
                 IN  Returns(<<Instruction(type, addr, reg[3]),
                               Instruction(type, U64Add(addr, 1), reg[2]),
                               Instruction(type, U64Add(addr, 2), reg[1]),
                               Instruction(type, U64Add(addr, 3), reg[0])>>)
    IN  convert(parse_double(value))

(***************************************************************************)
(* InputParser.cpp: PARSE_FUNCTIONS                                        *)
(***************************************************************************)
PARSE_FUNCTIONS == {
    <<<<"f","3","2","_","a","b","c","d">>, "parse_f32abcd">>,
    <<<<"f","3","2","_","c","d","a","b">>, "parse_f32cdab">>,
    <<<<"f","3","2","_","b","a","d","c">>, "parse_f32badc">>,
    <<<<"f","3","2","_","d","c","b","a">>, "parse_f32dcba">>,
    <<<<"f","3","2","_","l","i","t","t","l","e">>, "parse_f32dcba">>,
    <<<<"f","3","2","l">>, "parse_f32dcba">>,
    <<<<"f","3","2","_","b","i","g">>, "parse_f32abcd">>,
    <<<<"f","3","2","b">>, "parse_f32abcd">>,
    <<<<"f","3","2","_","l","i","t","t","l","e","_","r","e","v">>, "parse_f32badc">>,
    <<<<"f","3","2","l","r">>, "parse_f32badc">>,
    <<<<"f","3","2","_","b","i","g","_","r","e","v">>, "parse_f32cdab">>,
    <<<<"f","3","2","b","r">>, "parse_f32cdab">>,
    <<<<"f","6","4","_","a","b","c","d","e","f","g","h">>, "parse_f64abcdefgh">>,
    <<<<"f","6","4","_","g","h","e","f","c","d","a","b">>, "parse_f64ghefcdab">>,
    <<<<"f","6","4","_","b","a","d","c","f","e","h","g">>, "parse_f64badcfehg">>,
    <<<<"f","6","4","_","h","g","f","e","d","c","b","a">>, "parse_f64hgfedcba">>,
    <<<<"f","6","4","_","l","i","t","t","l","e">>, "parse_f64hgfedcba">>,
    <<<<"f","6","4","l">>, "parse_f64hgfedcba">>,
    <<<<"f","6","4","_","b","i","g">>, "parse_f64abcdefgh">>,
    <<<<"f","6","4","b">>, "parse_f64abcdefgh">>,
    <<<<"f","6","4","_","l","i","t","t","l","e","_","r","e","v">>, "parse_f64badcfehg">>,
    <<<<"f","6","4","l","r">>, "parse_f64badcfehg">>,
    <<<<"f","6","4","_","b","i","g","_","r","e","v">>, "parse_f64ghefcdab">>,
    <<<<"f","6","4","b","r">>, "parse_f64ghefcdab">>,
    <<<<"u","8","_","l","o">>, "parse_u8_lo">>,
    <<<<"u","8","_","h","i">>, "parse_u8_hi">>,
    <<<<"i","8","_","l","o">>, "parse_i8_lo">>,
    <<<<"i","8","_","h","i">>, "parse_i8_hi">>,
    <<<<"u","1","6","_","a","b">>, "parse_u16_ab">>,
    <<<<"u","1","6","_","b","i","g">>, "parse_u16_ab">>,
    <<<<"u","1","6","b">>, "parse_u16_ab">>,
    <<<<"u","1","6","_","b","a">>, "parse_u16_ba">>,
    <<<<"u","1","6","_","l","i","t","t","l","e">>, "parse_u16_ba">>,
    <<<<"u","1","6","l">>, "parse_u16_ba">>,
    <<<<"i","1","6","_","a","b">>, "parse_i16_ab">>,
    <<<<"i","1","6","_","b","i","g">>, "parse_i16_ab">>,
    <<<<"i","1","6","b">>, "parse_i16_ab">>,
    <<<<"i","1","6","_","b","a">>, "parse_i16_ba">>,
    <<<<"i","1","6","_","l","i","t","t","l","e">>, "parse_i16_ba">>,
    <<<<"i","1","6","l">>, "parse_i16_ba">>,
    <<<<"u","3","2","_","a","b","c","d">>, "parse_u32abcd">>,
    <<<<"u","3","2","_","c","d","a","b">>, "parse_u32cdab">>,
    <<<<"u","3","2","_","b","a","d","c">>, "parse_u32badc">>,
    <<<<"u","3","2","_","d","c","b","a">>, "parse_u32dcba">>,
    <<<<"u","3","2","_","l","i","t","t","l","e">>, "parse_u32dcba">>,
    <<<<"u","3","2","l">>, "parse_u32dcba">>,
    <<<<"u","3","2","_","b","i","g">>, "parse_u32abcd">>,
    <<<<"u","3","2","b">>, "parse_u32abcd">>,
    <<<<"u","3","2","_","l","i","t","t","l","e","_","r","e","v">>, "parse_u32badc">>,
    <<<<"u","3","2","l","r">>, "parse_u32badc">>,
    <<<<"u","3","2","_","b","i","g","_","r","e","v">>, "parse_u32cdab">>,
    <<<<"u","3","2","b","r">>, "parse_u32cdab">>,
    <<<<"i","3","2","_","a","b","c","d">>, "parse_i32abcd">>,
    <<<<"i","3","2","_","c","d","a","b">>, "parse_i32cdab">>,
    <<<<"i","3","2","_","b","a","d","c">>, "parse_i32badc">>,
    <<<<"i","3","2","_","d","c","b","a">>, "parse_i32dcba">>,
    <<<<"i","3","2","_","l","i","t","t","l","e">>, "parse_i32dcba">>,
    <<<<"i","3","2","l">>, "parse_i32dcba">>,
    <<<<"i","3","2","_","b","i","g">>, "parse_i32abcd">>,
    <<<<"i","3","2","b">>, "parse_i32abcd">>,
    <<<<"i","3","2","_","l","i","t","t","l","e","_","r","e","v">>, "parse_i32badc">>,
    <<<<"i","3","2","l","r">>, "parse_i32badc">>,
    <<<<"i","3","2","_","b","i","g","_","r","e","v">>, "parse_i32cdab">>,
    <<<<"i","3","2","b","r">>, "parse_i32cdab">>,
    <<<<"u","6","4","_","a","b","c","d","e","f","g","h">>, "parse_u64abcdefgh">>,
    <<<<"u","6","4","_","g","h","e","f","c","d","a","b">>, "parse_u64ghefcdab">>,
    <<<<"u","6","4","_","b","a","d","c","f","e","h","g">>, "parse_u64badcfehg">>,
    <<<<"u","6","4","_","h","g","f","e","d","c","b","a">>, "parse_u64hgfedcba">>,
    <<<<"u","6","4","_","l","i","t","t","l","e">>, "parse_u64hgfedcba">>,
    <<<<"u","6","4","l">>, "parse_u64hgfedcba">>,
    <<<<"u","6","4","_","b","i","g">>, "parse_u64abcdefgh">>,
    <<<<"u","6","4","b">>, "parse_u64abcdefgh">>,
    <<<<"u","6","4","_","l","i","t","t","l","e","_","r","e","v">>, "parse_u64badcfehg">>,
    <<<<"u","6","4","l","r">>, "parse_u64badcfehg">>,
    <<<<"u","6","4","_","b","i","g","_","r","e","v">>, "parse_u64ghefcdab">>,
    <<<<"u","6","4","b","r">>, "parse_u64ghefcdab">>,
    <<<<"i","6","4","_","a","b","c","d","e","f","g","h">>, "parse_i64abcdefgh">>,
    <<<<"i","6","4","_","g","h","e","f","c","d","a","b">>, "parse_i64ghefcdab">>,
    <<<<"i","6","4","_","b","a","d","c","f","e","h","g">>, "parse_i64badcfehg">>,
    <<<<"i","6","4","_","h","g","f","e","d","c","b","a">>, "parse_i64hgfedcba">>,
    <<<<"i","6","4","_","l","i","t","t","l","e">>, "parse_i64hgfedcba">>,
    <<<<"i","6","4","l">>, "parse_i64hgfedcba">>,
    <<<<"i","6","4","_","b","i","g">>, "parse_i64abcdefgh">>,
    <<<<"i","6","4","b">>, "parse_i64abcdefgh">>,
    <<<<"i","6","4","_","l","i","t","t","l","e","_","r","e","v">>, "parse_i64badcfehg">>,
    <<<<"i","6","4","l","r">>, "parse_i64badcfehg">>,
    <<<<"i","6","4","_","b","i","g","_","r","e","v">>, "parse_i64ghefcdab">>,
    <<<<"i","6","4","b","r">>, "parse_i64ghefcdab">>
}

\* the call through the function pointer stored for an identifier
CallParseFunction(fn, type, addr, value, base, h) ==
    CASE fn = "parse_f32abcd" -> parse_f32abcd(type, addr, value, base, h)
      [] fn = "parse_f32cdab" -> parse_f32cdab(type, addr, value, base, h)
      [] fn = "parse_f32badc" -> parse_f32badc(type, addr, value, base, h)
      [] fn = "parse_f32dcba" -> parse_f32dcba(type, addr, value, base, h)
      [] fn = "parse_f64abcdefgh" -> parse_f64abcdefgh(type, addr, value, base, h)
      [] fn = "parse_f64ghefcdab" -> parse_f64ghefcdab(type, addr, value, base, h)
      [] fn = "parse_f64badcfehg" -> parse_f64badcfehg(type, addr, value, base, h)
      [] fn = "parse_f64hgfedcba" -> parse_f64hgfedcba(type, addr, value, base, h)
      [] fn = "parse_u8_lo" -> parse_u8_lo(type, addr, value, base, h)
      [] fn = "parse_u8_hi" -> parse_u8_hi(type, addr, value, base, h)
      [] fn = "parse_i8_lo" -> parse_i8_lo(type, addr, value, base, h)
      [] fn = "parse_i8_hi" -> parse_i8_hi(type, addr, value, base, h)
      [] fn = "parse_u16_ab" -> parse_u16_ab(type, addr, value, base, h)
      [] fn = "parse_u16_ba" -> parse_u16_ba(type, addr, value, base, h)
      [] fn = "parse_i16_ab" -> parse_i16_ab(type, addr, value, base, h)
      [] fn = "parse_i16_ba" -> parse_i16_ba(type, addr, value, base, h)
      [] fn = "parse_u32abcd" -> parse_u32abcd(type, addr, value, base, h)
      [] fn = "parse_u32cdab" -> parse_u32cdab(type, addr, value, base, h)
      [] fn = "parse_u32badc" -> parse_u32badc(type, addr, value, base, h)
      [] fn = "parse_u32dcba" -> parse_u32dcba(type, addr, value, base, h)
      [] fn = "parse_i32abcd" -> parse_i32abcd(type, addr, value, base, h)
      [] fn = "parse_i32cdab" -> parse_i32cdab(type, addr, value, base, h)
      [] fn = "parse_i32badc" -> parse_i32badc(type, addr, value, base, h)
      [] fn = "parse_i32dcba" -> parse_i32dcba(type, addr, value, base, h)
      [] fn = "parse_u64abcdefgh" -> parse_u64abcdefgh(type, addr, value, base, h)
      [] fn = "parse_u64ghefcdab" -> parse_u64ghefcdab(type, addr, value, base, h)
      [] fn = "parse_u64badcfehg" -> parse_u64badcfehg(type, addr, value, base, h)
      [] fn = "parse_u64hgfedcba" -> parse_u64hgfedcba(type, addr, value, base, h)
      [] fn = "parse_i64abcdefgh" -> parse_i64abcdefgh(type, addr, value, base, h)
      [] fn = "parse_i64ghefcdab" -> parse_i64ghefcdab(type, addr, value, base, h)
      [] fn = "parse_i64badcfehg" -> parse_i64badcfehg(type, addr, value, base, h)
      [] fn = "parse_i64hgfedcba" -> parse_i64hgfedcba(type, addr, value, base, h)

(***************************************************************************)
(* InputParser.cpp: parse                                                  *)
(***************************************************************************)
\* InputParser.hpp: the string constants
PI == <<"3",".","1","4","1","5","9","2","6","5","3","5","8","9","7","9","3","2","3","8","4","6">>
NPI == <<"-","3",".","1","4","1","5","9","2","6","5","3","5","8","9","7","9","3","2","3","8","4","6">>
SQRT2 == <<"1",".","4","1","4","2","1","3","5","6","2","3","7","3","0","9","5","0","4","8","8","0">>
SQRT3 == <<"1",".","7","3","2","0","5","0","8","0","7","5","6","8","8","7","7","2","9","3","5","2">>
PHI == <<"1",".","6","1","8","0","3","3","9","8","8","7","4","9","8","9","4","8","4","8","2","0">>
LN2 == <<"0",".","6","9","3","1","4","7","1","8","0","5","5","9","9","4","5","3","0","9","4","1">>
E == <<"2",".","7","1","8","2","8","1","8","2","8","4","5","9","0","4","5","2","3","5","3","6">>

MIN_ELEMENTS == 3
MAX_ELEMENTS == 4
DELIMITER    == <<":">>

STR_f32_badc == <<"f","3","2","_","b","a","d","c">>

KEYWORDS_ONE  == {<<"t","r","u","e">>, <<"o","n","e">>, <<"h","i","g","h">>,
                  <<"a","c","t","i","v","e">>, <<"o","n">>,
                  <<"e","n","a","b","l","e","d">>}
KEYWORDS_ZERO == {<<"f","a","l","s","e">>, <<"z","e","r","o">>, <<"l","o","w">>,
                  <<"i","n","a","c","t","i","v","e">>, <<"o","f","f">>,
                  <<"d","i","s","a","b","l","e","d">>}

\* variant of the chain: the words for 1 and 0 only
ConvertValueExpression_switches_only(v) ==
    IF v \in KEYWORDS_ONE THEN <<"1">>
    ELSE IF v \in KEYWORDS_ZERO THEN <<"0">>
    ELSE v

\* "convert value expressions": split_input[2] after the if/else-if chain
ConvertValueExpression(v) ==
    IF v \in KEYWORDS_ONE THEN <<"1">>
    ELSE IF v \in KEYWORDS_ZERO THEN <<"0">>
    ELSE IF v = <<"p","i">> THEN PI
    ELSE IF v = <<"n","p","i">> \/ v = <<"-","p","i">> THEN NPI
    ELSE IF v = <<"s","q","r","t","2">> THEN SQRT2
    ELSE IF v = <<"s","q","r","t","3">> THEN SQRT3
    ELSE IF v = <<"p","h","i">> THEN PHI
    ELSE IF v = <<"l","n","2">> THEN LN2
    ELSE IF v = <<"e">> THEN E
    ELSE v

\* variant of the transform: the first field only, as the loop over type_str does
ToLower_type_only(str) ==
    [i \in 1..Len(str) |->
        IF \E j \in 1..(i - 1) : str[j] = ":" THEN str[i] ELSE tolower(str[i])]

\* std::transform(..., std::tolower)
ToLower(str) == [i \in 1..Len(str) |-> tolower(str[i])]

\* variant of the rewrite: a second f: prefix is removed as well
RefactorFloatLine_twice(str) ==
    IF Len(str) >= 4 /\ str[1] = "f" /\ str[2] = ":" /\ str[3] = "f" /\ str[4] = ":"
    THEN SubSeq(str, 5, Len(str)) \o <<":">> \o STR_f32_badc
    ELSE IF Len(str) >= 2 /\ str[1] = "f" /\ str[2] = ":"
    THEN SubSeq(str, 3, Len(str)) \o <<":">> \o STR_f32_badc
    ELSE str

\* compatibility to modbus_conv_float: lines that start with f:
RefactorFloatLine(str) ==
    IF Len(str) >= 2 /\ str[1] = "f" /\ str[2] = ":"
    THEN SubSeq(str, 3, Len(str)) \o <<":">> \o STR_f32_badc
    ELSE str

\* the register type named by type_str, "" when it names none
RegisterType(type_str) ==
    IF type_str = <<"d","o">> THEN "DO"
    ELSE IF type_str = <<"d","i">> THEN "DI"
    ELSE IF type_str = <<"a","o">> THEN "AO"
    ELSE IF type_str = <<"a","i">> THEN "AI"
    ELSE ""

\* PARSE_FUNCTIONS.find(id) != PARSE_FUNCTIONS.end()
IsParseFunction(id) == \E e \in PARSE_FUNCTIONS : e[1] = id

\* PARSE_FUNCTIONS.at(id)
ParseFunctionAt(id) == (CHOOSE e \in PARSE_FUNCTIONS : e[1] = id)[2]

\* the fields parse works on: the lowered, refactored line split at ':'
split_input(str) == split_string(RefactorFloatLine(ToLower(str)), DELIMITER, MAX_SPLIT_DEFAULT)

\* variant of parse_single: the value is taken from the numeral the token starts with
parse_single_prefix(type, addr, idx, value_str, bvalue) ==
    LET v == stoull(value_str, bvalue)
    IN  IF v.throws THEN Throws("Failed to parse value")
        ELSE Returns(<<Instruction(type, addr, CastU16(v.ret))>>)

\* the branch of parse for a line without data type: a single register
parse_single(type, addr, idx, value_str, bvalue) ==
    LET v     == stoull(value_str, bvalue)
        idx2  == IF v.throws THEN idx ELSE v.idx
        fail  == v.throws \/ idx2 /= Len(value_str)
    IN  IF fail THEN Throws("Failed to parse value")
        ELSE Returns(<<Instruction(type, addr, CastU16(v.ret))>>)

\* variant of parse_typed: a data type is taken for coils as well
parse_typed_coils_allowed(type, addr, value_str, data_type, bvalue, h) ==
    IF ~IsParseFunction(data_type) THEN Throws("Unknown data type")
    ELSE CallParseFunction(ParseFunctionAt(data_type), type, addr, value_str, bvalue, h)

\* the branch of parse for a line with a data type
parse_typed(type, addr, value_str, data_type, bvalue, h) ==
    IF type \in {"DO", "DI"} THEN Throws("Data type specification for coils is not allowed")
    ELSE IF ~IsParseFunction(data_type) THEN Throws("Unknown data type")
    ELSE CallParseFunction(ParseFunctionAt(data_type), type, addr, value_str, bvalue, h)

\* variant of parse: the address is converted before the register type is looked up
parse_fields_address_first(fields, baddr, bvalue, h) ==
        IF Len(fields) > MAX_ELEMENTS \/ Len(fields) < MIN_ELEMENTS
        THEN Throws("The input does not contain the appropriate number of delimiters")
        ELSE
        LET value_str == ConvertValueExpression(fields[3])
            type      == RegisterType(ToLower(fields[1]))
            addr_str  == fields[2]
            a         == stoull(addr_str, baddr)
            idx       == IF a.throws THEN 0 ELSE a.idx
            fail      == a.throws \/ idx /= Len(addr_str)
        IN  IF fail THEN Throws("Failed to parse address")
            ELSE IF type = "" THEN Throws("is not a valid register type")
            ELSE IF Len(fields) = MIN_ELEMENTS
            THEN parse_single(type, a.ret, idx, value_str, bvalue)
            ELSE parse_typed(type, a.ret, value_str, fields[4], bvalue, h)

\* parse from "check number of elements" on, split_input being fields
parse_fields(fields, baddr, bvalue, h) ==
        IF Len(fields) > MAX_ELEMENTS \/ Len(fields) < MIN_ELEMENTS
        THEN Throws("The input does not contain the appropriate number of delimiters")
        ELSE
        LET value_str == ConvertValueExpression(fields[3])
            type      == RegisterType(ToLower(fields[1]))
            addr_str  == fields[2]
            a         == stoull(addr_str, baddr)
            idx       == IF a.throws THEN 0 ELSE a.idx
            fail      == a.throws \/ idx /= Len(addr_str)
        IN  IF type = "" THEN Throws("is not a valid register type")
            ELSE IF fail THEN Throws("Failed to parse address")
            ELSE IF Len(fields) = MIN_ELEMENTS
            THEN parse_single(type, a.ret, idx, value_str, bvalue)
            ELSE parse_typed(type, a.ret, value_str, fields[4], bvalue, h)

\* InputParser::parse(line, base_addr, base_value, verbose) on a host of byte order h
parse(str, baddr, bvalue, h) == parse_fields(split_input(str), baddr, bvalue, h)

(***************************************************************************)
(* Tokens of the lines under test.  Each carries what it denotes as a      *)
(* numeral of its base: kind "num" (a numeral below 2^64), "huge" (a       *)
(* numeral of 2^64 or more), "neg" (a numeral behind a minus sign), "lax"   *)
(* (a numeral behind white space or a plus sign) or "bad" (no numeral);    *)
(* mag is the magnitude, trail tells a numeral followed by further         *)
(* characters, kw a value keyword, fnum a floating literal and ftrail a    *)
(* floating literal followed by further characters.                        *)
(***************************************************************************)
\* address tokens of the 3-field lines, with what each denotes in its base
ADDR_TOKENS(base) ==
    CASE base = 0 -> {
        [txt |-> <<"0">>, kind |-> "num", mag |-> <<0,0,0,0,0,0,0,0>>, trail |-> FALSE, kw |-> FALSE, fnum |-> TRUE, ftrail |-> FALSE],
        [txt |-> <<"2">>, kind |-> "num", mag |-> <<0,0,0,0,0,0,0,2>>, trail |-> FALSE, kw |-> FALSE, fnum |-> TRUE, ftrail |-> FALSE],
        [txt |-> <<"3">>, kind |-> "num", mag |-> <<0,0,0,0,0,0,0,3>>, trail |-> FALSE, kw |-> FALSE, fnum |-> TRUE, ftrail |-> FALSE],
        [txt |-> <<"5">>, kind |-> "num", mag |-> <<0,0,0,0,0,0,0,5>>, trail |-> FALSE, kw |-> FALSE, fnum |-> TRUE, ftrail |-> FALSE],
        [txt |-> <<"0","1","0">>, kind |-> "num", mag |-> <<0,0,0,0,0,0,0,8>>, trail |-> FALSE, kw |-> FALSE, fnum |-> TRUE, ftrail |-> FALSE],
        [txt |-> <<"0","x","1","0">>, kind |-> "num", mag |-> <<0,0,0,0,0,0,0,16>>, trail |-> FALSE, kw |-> FALSE, fnum |-> TRUE, ftrail |-> FALSE],
        [txt |-> <<"6","5","5","3","5">>, kind |-> "num", mag |-> <<0,0,0,0,0,0,255,255>>, trail |-> FALSE, kw |-> FALSE, fnum |-> TRUE, ftrail |-> FALSE],
        [txt |-> <<"1","8","4","4","6","7","4","4","0","7","3","7","0","9","5","5","1","6","1","5">>, kind |-> "num", mag |-> <<255,255,255,255,255,255,255,255>>, trail |-> FALSE, kw |-> FALSE, fnum |-> TRUE, ftrail |-> FALSE],
        [txt |-> <<"1","8","4","4","6","7","4","4","0","7","3","7","0","9","5","5","1","6","1","6">>, kind |-> "huge", mag |-> <<0,0,0,0,0,0,0,0>>, trail |-> FALSE, kw |-> FALSE, fnum |-> TRUE, ftrail |-> FALSE],
        [txt |-> <<"1","2","x">>, kind |-> "bad", mag |-> <<0,0,0,0,0,0,0,0>>, trail |-> TRUE, kw |-> FALSE, fnum |-> FALSE, ftrail |-> TRUE],
        [txt |-> <<>>, kind |-> "bad", mag |-> <<0,0,0,0,0,0,0,0>>, trail |-> FALSE, kw |-> FALSE, fnum |-> FALSE, ftrail |-> FALSE],
        [txt |-> <<"-","1">>, kind |-> "neg", mag |-> <<0,0,0,0,0,0,0,1>>, trail |-> FALSE, kw |-> FALSE, fnum |-> TRUE, ftrail |-> FALSE],
        [txt |-> <<"0","x">>, kind |-> "bad", mag |-> <<0,0,0,0,0,0,0,0>>, trail |-> TRUE, kw |-> FALSE, fnum |-> FALSE, ftrail |-> TRUE],
        [txt |-> <<" ","1">>, kind |-> "lax", mag |-> <<0,0,0,0,0,0,0,1>>, trail |-> FALSE, kw |-> FALSE, fnum |-> FALSE, ftrail |-> FALSE]
        }
      [] base = 10 -> {
        [txt |-> <<"3">>, kind |-> "num", mag |-> <<0,0,0,0,0,0,0,3>>, trail |-> FALSE, kw |-> FALSE, fnum |-> TRUE, ftrail |-> FALSE],
        [txt |-> <<"1","0">>, kind |-> "num", mag |-> <<0,0,0,0,0,0,0,10>>, trail |-> FALSE, kw |-> FALSE, fnum |-> TRUE, ftrail |-> FALSE],
        [txt |-> <<"0","1","0">>, kind |-> "num", mag |-> <<0,0,0,0,0,0,0,10>>, trail |-> FALSE, kw |-> FALSE, fnum |-> TRUE, ftrail |-> FALSE],
        [txt |-> <<"0","x","1","0">>, kind |-> "bad", mag |-> <<0,0,0,0,0,0,0,0>>, trail |-> TRUE, kw |-> FALSE, fnum |-> TRUE, ftrail |-> FALSE],
        [txt |-> <<"f","f">>, kind |-> "bad", mag |-> <<0,0,0,0,0,0,0,0>>, trail |-> FALSE, kw |-> FALSE, fnum |-> FALSE, ftrail |-> FALSE],
        [txt |-> <<"1","2","x">>, kind |-> "bad", mag |-> <<0,0,0,0,0,0,0,0>>, trail |-> TRUE, kw |-> FALSE, fnum |-> FALSE, ftrail |-> TRUE]
        }
      [] base = 16 -> {
        [txt |-> <<"3">>, kind |-> "num", mag |-> <<0,0,0,0,0,0,0,3>>, trail |-> FALSE, kw |-> FALSE, fnum |-> TRUE, ftrail |-> FALSE],
        [txt |-> <<"1","0">>, kind |-> "num", mag |-> <<0,0,0,0,0,0,0,16>>, trail |-> FALSE, kw |-> FALSE, fnum |-> TRUE, ftrail |-> FALSE],
        [txt |-> <<"f","f">>, kind |-> "num", mag |-> <<0,0,0,0,0,0,0,255>>, trail |-> FALSE, kw |-> FALSE, fnum |-> FALSE, ftrail |-> FALSE],
        [txt |-> <<"0","x","1","0">>, kind |-> "num", mag |-> <<0,0,0,0,0,0,0,16>>, trail |-> FALSE, kw |-> FALSE, fnum |-> TRUE, ftrail |-> FALSE],
        [txt |-> <<"e">>, kind |-> "num", mag |-> <<0,0,0,0,0,0,0,14>>, trail |-> FALSE, kw |-> TRUE, fnum |-> FALSE, ftrail |-> FALSE],
        [txt |-> <<"f","g">>, kind |-> "bad", mag |-> <<0,0,0,0,0,0,0,0>>, trail |-> TRUE, kw |-> FALSE, fnum |-> FALSE, ftrail |-> FALSE]
        }

\* address tokens of the 4-field lines
ADDR4_TOKENS(base) ==
    CASE base = 0 -> {
        [txt |-> <<"0">>, kind |-> "num", mag |-> <<0,0,0,0,0,0,0,0>>, trail |-> FALSE, kw |-> FALSE, fnum |-> TRUE, ftrail |-> FALSE],
        [txt |-> <<"2">>, kind |-> "num", mag |-> <<0,0,0,0,0,0,0,2>>, trail |-> FALSE, kw |-> FALSE, fnum |-> TRUE, ftrail |-> FALSE],
        [txt |-> <<"5">>, kind |-> "num", mag |-> <<0,0,0,0,0,0,0,5>>, trail |-> FALSE, kw |-> FALSE, fnum |-> TRUE, ftrail |-> FALSE],
        [txt |-> <<"1","8","4","4","6","7","4","4","0","7","3","7","0","9","5","5","1","6","1","3">>, kind |-> "num", mag |-> <<255,255,255,255,255,255,255,253>>, trail |-> FALSE, kw |-> FALSE, fnum |-> TRUE, ftrail |-> FALSE],
        [txt |-> <<"1","8","4","4","6","7","4","4","0","7","3","7","0","9","5","5","1","6","1","5">>, kind |-> "num", mag |-> <<255,255,255,255,255,255,255,255>>, trail |-> FALSE, kw |-> FALSE, fnum |-> TRUE, ftrail |-> FALSE],
        [txt |-> <<"1","2","x">>, kind |-> "bad", mag |-> <<0,0,0,0,0,0,0,0>>, trail |-> TRUE, kw |-> FALSE, fnum |-> FALSE, ftrail |-> TRUE]
        }
      [] base = 10 -> {
        [txt |-> <<"0">>, kind |-> "num", mag |-> <<0,0,0,0,0,0,0,0>>, trail |-> FALSE, kw |-> FALSE, fnum |-> TRUE, ftrail |-> FALSE],
        [txt |-> <<"2">>, kind |-> "num", mag |-> <<0,0,0,0,0,0,0,2>>, trail |-> FALSE, kw |-> FALSE, fnum |-> TRUE, ftrail |-> FALSE]
        }
      [] base = 16 -> {
        [txt |-> <<"0">>, kind |-> "num", mag |-> <<0,0,0,0,0,0,0,0>>, trail |-> FALSE, kw |-> FALSE, fnum |-> TRUE, ftrail |-> FALSE],
        [txt |-> <<"2">>, kind |-> "num", mag |-> <<0,0,0,0,0,0,0,2>>, trail |-> FALSE, kw |-> FALSE, fnum |-> TRUE, ftrail |-> FALSE]
        }

\* value tokens of the 3-field lines
VALUE3_TOKENS(base) ==
    CASE base = 0 -> {
        [txt |-> <<"0">>, kind |-> "num", mag |-> <<0,0,0,0,0,0,0,0>>, trail |-> FALSE, kw |-> FALSE, fnum |-> TRUE, ftrail |-> FALSE],
        [txt |-> <<"1">>, kind |-> "num", mag |-> <<0,0,0,0,0,0,0,1>>, trail |-> FALSE, kw |-> FALSE, fnum |-> TRUE, ftrail |-> FALSE],
        [txt |-> <<"7">>, kind |-> "num", mag |-> <<0,0,0,0,0,0,0,7>>, trail |-> FALSE, kw |-> FALSE, fnum |-> TRUE, ftrail |-> FALSE],
        [txt |-> <<"2","5","5">>, kind |-> "num", mag |-> <<0,0,0,0,0,0,0,255>>, trail |-> FALSE, kw |-> FALSE, fnum |-> TRUE, ftrail |-> FALSE],
        [txt |-> <<"6","5","5","3","5">>, kind |-> "num", mag |-> <<0,0,0,0,0,0,255,255>>, trail |-> FALSE, kw |-> FALSE, fnum |-> TRUE, ftrail |-> FALSE],
        [txt |-> <<"6","5","5","3","6">>, kind |-> "num", mag |-> <<0,0,0,0,0,1,0,0>>, trail |-> FALSE, kw |-> FALSE, fnum |-> TRUE, ftrail |-> FALSE],
        [txt |-> <<"6","5","5","3","7">>, kind |-> "num", mag |-> <<0,0,0,0,0,1,0,1>>, trail |-> FALSE, kw |-> FALSE, fnum |-> TRUE, ftrail |-> FALSE],
        [txt |-> <<"0","1","0">>, kind |-> "num", mag |-> <<0,0,0,0,0,0,0,8>>, trail |-> FALSE, kw |-> FALSE, fnum |-> TRUE, ftrail |-> FALSE],
        [txt |-> <<"0","x","1","0">>, kind |-> "num", mag |-> <<0,0,0,0,0,0,0,16>>, trail |-> FALSE, kw |-> FALSE, fnum |-> TRUE, ftrail |-> FALSE],
        [txt |-> <<"0","0">>, kind |-> "num", mag |-> <<0,0,0,0,0,0,0,0>>, trail |-> FALSE, kw |-> FALSE, fnum |-> TRUE, ftrail |-> FALSE],
        [txt |-> <<"-","1">>, kind |-> "neg", mag |-> <<0,0,0,0,0,0,0,1>>, trail |-> FALSE, kw |-> FALSE, fnum |-> TRUE, ftrail |-> FALSE],
        [txt |-> <<"1","8","4","4","6","7","4","4","0","7","3","7","0","9","5","5","1","6","1","5">>, kind |-> "num", mag |-> <<255,255,255,255,255,255,255,255>>, trail |-> FALSE, kw |-> FALSE, fnum |-> TRUE, ftrail |-> FALSE],
        [txt |-> <<"1","8","4","4","6","7","4","4","0","7","3","7","0","9","5","5","1","6","1","6">>, kind |-> "huge", mag |-> <<0,0,0,0,0,0,0,0>>, trail |-> FALSE, kw |-> FALSE, fnum |-> TRUE, ftrail |-> FALSE],
        [txt |-> <<"1","2","x">>, kind |-> "bad", mag |-> <<0,0,0,0,0,0,0,0>>, trail |-> TRUE, kw |-> FALSE, fnum |-> FALSE, ftrail |-> TRUE],
        [txt |-> <<>>, kind |-> "bad", mag |-> <<0,0,0,0,0,0,0,0>>, trail |-> FALSE, kw |-> FALSE, fnum |-> FALSE, ftrail |-> FALSE],
        [txt |-> <<"1",".","5">>, kind |-> "bad", mag |-> <<0,0,0,0,0,0,0,0>>, trail |-> TRUE, kw |-> FALSE, fnum |-> TRUE, ftrail |-> FALSE],
        [txt |-> <<"t","r","u","e">>, kind |-> "bad", mag |-> <<0,0,0,0,0,0,0,0>>, trail |-> FALSE, kw |-> TRUE, fnum |-> FALSE, ftrail |-> FALSE],
        [txt |-> <<"o","f","f">>, kind |-> "bad", mag |-> <<0,0,0,0,0,0,0,0>>, trail |-> FALSE, kw |-> TRUE, fnum |-> FALSE, ftrail |-> FALSE],
        [txt |-> <<"e">>, kind |-> "bad", mag |-> <<0,0,0,0,0,0,0,0>>, trail |-> FALSE, kw |-> TRUE, fnum |-> FALSE, ftrail |-> FALSE],
        [txt |-> <<"p","i">>, kind |-> "bad", mag |-> <<0,0,0,0,0,0,0,0>>, trail |-> FALSE, kw |-> TRUE, fnum |-> FALSE, ftrail |-> FALSE],
        [txt |-> <<" ","7">>, kind |-> "lax", mag |-> <<0,0,0,0,0,0,0,7>>, trail |-> FALSE, kw |-> FALSE, fnum |-> FALSE, ftrail |-> FALSE],
        [txt |-> <<"+","7">>, kind |-> "lax", mag |-> <<0,0,0,0,0,0,0,7>>, trail |-> FALSE, kw |-> FALSE, fnum |-> TRUE, ftrail |-> FALSE],
        [txt |-> <<"0","x">>, kind |-> "bad", mag |-> <<0,0,0,0,0,0,0,0>>, trail |-> TRUE, kw |-> FALSE, fnum |-> FALSE, ftrail |-> TRUE],
        [txt |-> <<"0","X","F","F">>, kind |-> "num", mag |-> <<0,0,0,0,0,0,0,255>>, trail |-> FALSE, kw |-> FALSE, fnum |-> TRUE, ftrail |-> FALSE]
        }
      [] base = 10 -> {
        [txt |-> <<"0">>, kind |-> "num", mag |-> <<0,0,0,0,0,0,0,0>>, trail |-> FALSE, kw |-> FALSE, fnum |-> TRUE, ftrail |-> FALSE],
        [txt |-> <<"7">>, kind |-> "num", mag |-> <<0,0,0,0,0,0,0,7>>, trail |-> FALSE, kw |-> FALSE, fnum |-> TRUE, ftrail |-> FALSE],
        [txt |-> <<"0","1","0">>, kind |-> "num", mag |-> <<0,0,0,0,0,0,0,10>>, trail |-> FALSE, kw |-> FALSE, fnum |-> TRUE, ftrail |-> FALSE],
        [txt |-> <<"0","x","1","0">>, kind |-> "bad", mag |-> <<0,0,0,0,0,0,0,0>>, trail |-> TRUE, kw |-> FALSE, fnum |-> TRUE, ftrail |-> FALSE],
        [txt |-> <<"e">>, kind |-> "bad", mag |-> <<0,0,0,0,0,0,0,0>>, trail |-> FALSE, kw |-> TRUE, fnum |-> FALSE, ftrail |-> FALSE],
        [txt |-> <<"6","5","5","3","6">>, kind |-> "num", mag |-> <<0,0,0,0,0,1,0,0>>, trail |-> FALSE, kw |-> FALSE, fnum |-> TRUE, ftrail |-> FALSE],
        [txt |-> <<"1","2","x">>, kind |-> "bad", mag |-> <<0,0,0,0,0,0,0,0>>, trail |-> TRUE, kw |-> FALSE, fnum |-> FALSE, ftrail |-> TRUE],
        [txt |-> <<"o","n">>, kind |-> "bad", mag |-> <<0,0,0,0,0,0,0,0>>, trail |-> FALSE, kw |-> TRUE, fnum |-> FALSE, ftrail |-> FALSE]
        }
      [] base = 16 -> {
        [txt |-> <<"0">>, kind |-> "num", mag |-> <<0,0,0,0,0,0,0,0>>, trail |-> FALSE, kw |-> FALSE, fnum |-> TRUE, ftrail |-> FALSE],
        [txt |-> <<"7">>, kind |-> "num", mag |-> <<0,0,0,0,0,0,0,7>>, trail |-> FALSE, kw |-> FALSE, fnum |-> TRUE, ftrail |-> FALSE],
        [txt |-> <<"1","0">>, kind |-> "num", mag |-> <<0,0,0,0,0,0,0,16>>, trail |-> FALSE, kw |-> FALSE, fnum |-> TRUE, ftrail |-> FALSE],
        [txt |-> <<"f","f">>, kind |-> "num", mag |-> <<0,0,0,0,0,0,0,255>>, trail |-> FALSE, kw |-> FALSE, fnum |-> FALSE, ftrail |-> FALSE],
        [txt |-> <<"e">>, kind |-> "num", mag |-> <<0,0,0,0,0,0,0,14>>, trail |-> FALSE, kw |-> TRUE, fnum |-> FALSE, ftrail |-> FALSE],
        [txt |-> <<"0","x","1","0">>, kind |-> "num", mag |-> <<0,0,0,0,0,0,0,16>>, trail |-> FALSE, kw |-> FALSE, fnum |-> TRUE, ftrail |-> FALSE],
        [txt |-> <<"1","0","0","0","0">>, kind |-> "num", mag |-> <<0,0,0,0,0,1,0,0>>, trail |-> FALSE, kw |-> FALSE, fnum |-> TRUE, ftrail |-> FALSE],
        [txt |-> <<"f","g">>, kind |-> "bad", mag |-> <<0,0,0,0,0,0,0,0>>, trail |-> TRUE, kw |-> FALSE, fnum |-> FALSE, ftrail |-> FALSE],
        [txt |-> <<"t","r","u","e">>, kind |-> "bad", mag |-> <<0,0,0,0,0,0,0,0>>, trail |-> FALSE, kw |-> TRUE, fnum |-> FALSE, ftrail |-> FALSE],
        [txt |-> <<"f","a","l","s","e">>, kind |-> "bad", mag |-> <<0,0,0,0,0,0,0,0>>, trail |-> TRUE, kw |-> TRUE, fnum |-> FALSE, ftrail |-> FALSE],
        [txt |-> <<"e","n","a","b","l","e","d">>, kind |-> "bad", mag |-> <<0,0,0,0,0,0,0,0>>, trail |-> TRUE, kw |-> TRUE, fnum |-> FALSE, ftrail |-> FALSE]
        }

\* value tokens of the 4-field lines and of parse_int
VALUE4_TOKENS(base) ==
    CASE base = 0 -> {
        [txt |-> <<"0">>, kind |-> "num", mag |-> <<0,0,0,0,0,0,0,0>>, trail |-> FALSE, kw |-> FALSE, fnum |-> TRUE, ftrail |-> FALSE],
        [txt |-> <<"1">>, kind |-> "num", mag |-> <<0,0,0,0,0,0,0,1>>, trail |-> FALSE, kw |-> FALSE, fnum |-> TRUE, ftrail |-> FALSE],
        [txt |-> <<"-","0">>, kind |-> "neg", mag |-> <<0,0,0,0,0,0,0,0>>, trail |-> FALSE, kw |-> FALSE, fnum |-> TRUE, ftrail |-> FALSE],
        [txt |-> <<"-","1">>, kind |-> "neg", mag |-> <<0,0,0,0,0,0,0,1>>, trail |-> FALSE, kw |-> FALSE, fnum |-> TRUE, ftrail |-> FALSE],
        [txt |-> <<"1","2","7">>, kind |-> "num", mag |-> <<0,0,0,0,0,0,0,127>>, trail |-> FALSE, kw |-> FALSE, fnum |-> TRUE, ftrail |-> FALSE],
        [txt |-> <<"1","2","8">>, kind |-> "num", mag |-> <<0,0,0,0,0,0,0,128>>, trail |-> FALSE, kw |-> FALSE, fnum |-> TRUE, ftrail |-> FALSE],
        [txt |-> <<"-","1","2","8">>, kind |-> "neg", mag |-> <<0,0,0,0,0,0,0,128>>, trail |-> FALSE, kw |-> FALSE, fnum |-> TRUE, ftrail |-> FALSE],
        [txt |-> <<"-","1","2","9">>, kind |-> "neg", mag |-> <<0,0,0,0,0,0,0,129>>, trail |-> FALSE, kw |-> FALSE, fnum |-> TRUE, ftrail |-> FALSE],
        [txt |-> <<"2","5","5">>, kind |-> "num", mag |-> <<0,0,0,0,0,0,0,255>>, trail |-> FALSE, kw |-> FALSE, fnum |-> TRUE, ftrail |-> FALSE],
        [txt |-> <<"2","5","6">>, kind |-> "num", mag |-> <<0,0,0,0,0,0,1,0>>, trail |-> FALSE, kw |-> FALSE, fnum |-> TRUE, ftrail |-> FALSE],
        [txt |-> <<"3","2","7","6","7">>, kind |-> "num", mag |-> <<0,0,0,0,0,0,127,255>>, trail |-> FALSE, kw |-> FALSE, fnum |-> TRUE, ftrail |-> FALSE],
        [txt |-> <<"3","2","7","6","8">>, kind |-> "num", mag |-> <<0,0,0,0,0,0,128,0>>, trail |-> FALSE, kw |-> FALSE, fnum |-> TRUE, ftrail |-> FALSE],
        [txt |-> <<"-","3","2","7","6","8">>, kind |-> "neg", mag |-> <<0,0,0,0,0,0,128,0>>, trail |-> FALSE, kw |-> FALSE, fnum |-> TRUE, ftrail |-> FALSE],
        [txt |-> <<"-","3","2","7","6","9">>, kind |-> "neg", mag |-> <<0,0,0,0,0,0,128,1>>, trail |-> FALSE, kw |-> FALSE, fnum |-> TRUE, ftrail |-> FALSE],
        [txt |-> <<"6","5","5","3","5">>, kind |-> "num", mag |-> <<0,0,0,0,0,0,255,255>>, trail |-> FALSE, kw |-> FALSE, fnum |-> TRUE, ftrail |-> FALSE],
        [txt |-> <<"6","5","5","3","6">>, kind |-> "num", mag |-> <<0,0,0,0,0,1,0,0>>, trail |-> FALSE, kw |-> FALSE, fnum |-> TRUE, ftrail |-> FALSE],
        [txt |-> <<"2","1","4","7","4","8","3","6","4","7">>, kind |-> "num", mag |-> <<0,0,0,0,127,255,255,255>>, trail |-> FALSE, kw |-> FALSE, fnum |-> TRUE, ftrail |-> FALSE],
        [txt |-> <<"2","1","4","7","4","8","3","6","4","8">>, kind |-> "num", mag |-> <<0,0,0,0,128,0,0,0>>, trail |-> FALSE, kw |-> FALSE, fnum |-> TRUE, ftrail |-> FALSE],
        [txt |-> <<"-","2","1","4","7","4","8","3","6","4","8">>, kind |-> "neg", mag |-> <<0,0,0,0,128,0,0,0>>, trail |-> FALSE, kw |-> FALSE, fnum |-> TRUE, ftrail |-> FALSE],
        [txt |-> <<"-","2","1","4","7","4","8","3","6","4","9">>, kind |-> "neg", mag |-> <<0,0,0,0,128,0,0,1>>, trail |-> FALSE, kw |-> FALSE, fnum |-> TRUE, ftrail |-> FALSE],
        [txt |-> <<"4","2","9","4","9","6","7","2","9","5">>, kind |-> "num", mag |-> <<0,0,0,0,255,255,255,255>>, trail |-> FALSE, kw |-> FALSE, fnum |-> TRUE, ftrail |-> FALSE],
        [txt |-> <<"4","2","9","4","9","6","7","2","9","6">>, kind |-> "num", mag |-> <<0,0,0,1,0,0,0,0>>, trail |-> FALSE, kw |-> FALSE, fnum |-> TRUE, ftrail |-> FALSE],
        [txt |-> <<"9","2","2","3","3","7","2","0","3","6","8","5","4","7","7","5","8","0","7">>, kind |-> "num", mag |-> <<127,255,255,255,255,255,255,255>>, trail |-> FALSE, kw |-> FALSE, fnum |-> TRUE, ftrail |-> FALSE],
        [txt |-> <<"9","2","2","3","3","7","2","0","3","6","8","5","4","7","7","5","8","0","8">>, kind |-> "num", mag |-> <<128,0,0,0,0,0,0,0>>, trail |-> FALSE, kw |-> FALSE, fnum |-> TRUE, ftrail |-> FALSE],
        [txt |-> <<"-","9","2","2","3","3","7","2","0","3","6","8","5","4","7","7","5","8","0","8">>, kind |-> "neg", mag |-> <<128,0,0,0,0,0,0,0>>, trail |-> FALSE, kw |-> FALSE, fnum |-> TRUE, ftrail |-> FALSE],
        [txt |-> <<"-","9","2","2","3","3","7","2","0","3","6","8","5","4","7","7","5","8","0","9">>, kind |-> "neg", mag |-> <<128,0,0,0,0,0,0,1>>, trail |-> FALSE, kw |-> FALSE, fnum |-> TRUE, ftrail |-> FALSE],
        [txt |-> <<"1","8","4","4","6","7","4","4","0","7","3","7","0","9","5","5","1","6","1","5">>, kind |-> "num", mag |-> <<255,255,255,255,255,255,255,255>>, trail |-> FALSE, kw |-> FALSE, fnum |-> TRUE, ftrail |-> FALSE],
        [txt |-> <<"1","8","4","4","6","7","4","4","0","7","3","7","0","9","5","5","1","6","1","6">>, kind |-> "huge", mag |-> <<0,0,0,0,0,0,0,0>>, trail |-> FALSE, kw |-> FALSE, fnum |-> TRUE, ftrail |-> FALSE],
        [txt |-> <<"-","1","8","4","4","6","7","4","4","0","7","3","7","0","9","5","5","1","6","1","5">>, kind |-> "neg", mag |-> <<255,255,255,255,255,255,255,255>>, trail |-> FALSE, kw |-> FALSE, fnum |-> TRUE, ftrail |-> FALSE],
        [txt |-> <<"0","x","0","1","2","3">>, kind |-> "num", mag |-> <<0,0,0,0,0,0,1,35>>, trail |-> FALSE, kw |-> FALSE, fnum |-> TRUE, ftrail |-> FALSE],
        [txt |-> <<"0","x","0","1","2","3","4","5","6","7">>, kind |-> "num", mag |-> <<0,0,0,0,1,35,69,103>>, trail |-> FALSE, kw |-> FALSE, fnum |-> TRUE, ftrail |-> FALSE],
        [txt |-> <<"0","x","0","1","2","3","4","5","6","7","8","9","a","b","c","d","e","f">>, kind |-> "num", mag |-> <<1,35,69,103,137,171,205,239>>, trail |-> FALSE, kw |-> FALSE, fnum |-> TRUE, ftrail |-> FALSE],
        [txt |-> <<"0","x","8","1","2","3","4","5","6","7","8","9","a","b","c","d","e","f">>, kind |-> "num", mag |-> <<129,35,69,103,137,171,205,239>>, trail |-> FALSE, kw |-> FALSE, fnum |-> TRUE, ftrail |-> FALSE],
        [txt |-> <<"-","0","x","0","1","2","3">>, kind |-> "neg", mag |-> <<0,0,0,0,0,0,1,35>>, trail |-> FALSE, kw |-> FALSE, fnum |-> TRUE, ftrail |-> FALSE],
        [txt |-> <<"0","x","8","1">>, kind |-> "num", mag |-> <<0,0,0,0,0,0,0,129>>, trail |-> FALSE, kw |-> FALSE, fnum |-> TRUE, ftrail |-> FALSE],
        [txt |-> <<"0","x","f","e","d","c">>, kind |-> "num", mag |-> <<0,0,0,0,0,0,254,220>>, trail |-> FALSE, kw |-> FALSE, fnum |-> TRUE, ftrail |-> FALSE],
        [txt |-> <<"m","i","n">>, kind |-> "bad", mag |-> <<0,0,0,0,0,0,0,0>>, trail |-> FALSE, kw |-> FALSE, fnum |-> FALSE, ftrail |-> FALSE],
        [txt |-> <<"m","a","x">>, kind |-> "bad", mag |-> <<0,0,0,0,0,0,0,0>>, trail |-> FALSE, kw |-> FALSE, fnum |-> FALSE, ftrail |-> FALSE],
        [txt |-> <<"l","o","w","e","s","t">>, kind |-> "bad", mag |-> <<0,0,0,0,0,0,0,0>>, trail |-> FALSE, kw |-> FALSE, fnum |-> FALSE, ftrail |-> FALSE],
        [txt |-> <<"1","2","x">>, kind |-> "bad", mag |-> <<0,0,0,0,0,0,0,0>>, trail |-> TRUE, kw |-> FALSE, fnum |-> FALSE, ftrail |-> TRUE],
        [txt |-> <<>>, kind |-> "bad", mag |-> <<0,0,0,0,0,0,0,0>>, trail |-> FALSE, kw |-> FALSE, fnum |-> FALSE, ftrail |-> FALSE],
        [txt |-> <<" ","5">>, kind |-> "lax", mag |-> <<0,0,0,0,0,0,0,5>>, trail |-> FALSE, kw |-> FALSE, fnum |-> FALSE, ftrail |-> FALSE],
        [txt |-> <<"+","5">>, kind |-> "lax", mag |-> <<0,0,0,0,0,0,0,5>>, trail |-> FALSE, kw |-> FALSE, fnum |-> TRUE, ftrail |-> FALSE],
        [txt |-> <<"1",".","5">>, kind |-> "bad", mag |-> <<0,0,0,0,0,0,0,0>>, trail |-> TRUE, kw |-> FALSE, fnum |-> TRUE, ftrail |-> FALSE],
        [txt |-> <<"1",".","5","x">>, kind |-> "bad", mag |-> <<0,0,0,0,0,0,0,0>>, trail |-> TRUE, kw |-> FALSE, fnum |-> FALSE, ftrail |-> TRUE],
        [txt |-> <<"1","e">>, kind |-> "bad", mag |-> <<0,0,0,0,0,0,0,0>>, trail |-> TRUE, kw |-> FALSE, fnum |-> FALSE, ftrail |-> TRUE],
        [txt |-> <<"t","r","u","e">>, kind |-> "bad", mag |-> <<0,0,0,0,0,0,0,0>>, trail |-> FALSE, kw |-> TRUE, fnum |-> FALSE, ftrail |-> FALSE],
        [txt |-> <<"p","i">>, kind |-> "bad", mag |-> <<0,0,0,0,0,0,0,0>>, trail |-> FALSE, kw |-> TRUE, fnum |-> FALSE, ftrail |-> FALSE],
        [txt |-> <<"n","a","n">>, kind |-> "bad", mag |-> <<0,0,0,0,0,0,0,0>>, trail |-> FALSE, kw |-> FALSE, fnum |-> TRUE, ftrail |-> FALSE],
        [txt |-> <<"i","n","f">>, kind |-> "bad", mag |-> <<0,0,0,0,0,0,0,0>>, trail |-> FALSE, kw |-> FALSE, fnum |-> TRUE, ftrail |-> FALSE]
        }
      [] base = 10 -> {
        [txt |-> <<"2","5","5">>, kind |-> "num", mag |-> <<0,0,0,0,0,0,0,255>>, trail |-> FALSE, kw |-> FALSE, fnum |-> TRUE, ftrail |-> FALSE],
        [txt |-> <<"0","x","1","0">>, kind |-> "bad", mag |-> <<0,0,0,0,0,0,0,0>>, trail |-> TRUE, kw |-> FALSE, fnum |-> TRUE, ftrail |-> FALSE],
        [txt |-> <<"0","1","0">>, kind |-> "num", mag |-> <<0,0,0,0,0,0,0,10>>, trail |-> FALSE, kw |-> FALSE, fnum |-> TRUE, ftrail |-> FALSE],
        [txt |-> <<"-","1","2","9">>, kind |-> "neg", mag |-> <<0,0,0,0,0,0,0,129>>, trail |-> FALSE, kw |-> FALSE, fnum |-> TRUE, ftrail |-> FALSE],
        [txt |-> <<"1","2","x">>, kind |-> "bad", mag |-> <<0,0,0,0,0,0,0,0>>, trail |-> TRUE, kw |-> FALSE, fnum |-> FALSE, ftrail |-> TRUE],
        [txt |-> <<"f","f">>, kind |-> "bad", mag |-> <<0,0,0,0,0,0,0,0>>, trail |-> FALSE, kw |-> FALSE, fnum |-> FALSE, ftrail |-> FALSE]
        }
      [] base = 16 -> {
        [txt |-> <<"f","f">>, kind |-> "num", mag |-> <<0,0,0,0,0,0,0,255>>, trail |-> FALSE, kw |-> FALSE, fnum |-> FALSE, ftrail |-> FALSE],
        [txt |-> <<"1","0">>, kind |-> "num", mag |-> <<0,0,0,0,0,0,0,16>>, trail |-> FALSE, kw |-> FALSE, fnum |-> TRUE, ftrail |-> FALSE],
        [txt |-> <<"0","x","1","0">>, kind |-> "num", mag |-> <<0,0,0,0,0,0,0,16>>, trail |-> FALSE, kw |-> FALSE, fnum |-> TRUE, ftrail |-> FALSE],
        [txt |-> <<"-","8","1">>, kind |-> "neg", mag |-> <<0,0,0,0,0,0,0,129>>, trail |-> FALSE, kw |-> FALSE, fnum |-> TRUE, ftrail |-> FALSE],
        [txt |-> <<"e">>, kind |-> "num", mag |-> <<0,0,0,0,0,0,0,14>>, trail |-> FALSE, kw |-> TRUE, fnum |-> FALSE, ftrail |-> FALSE],
        [txt |-> <<"f","g">>, kind |-> "bad", mag |-> <<0,0,0,0,0,0,0,0>>, trail |-> TRUE, kw |-> FALSE, fnum |-> FALSE, ftrail |-> FALSE],
        [txt |-> <<"1","0","0","0","0">>, kind |-> "num", mag |-> <<0,0,0,0,0,1,0,0>>, trail |-> FALSE, kw |-> FALSE, fnum |-> TRUE, ftrail |-> FALSE],
        [txt |-> <<"f","a","l","s","e">>, kind |-> "bad", mag |-> <<0,0,0,0,0,0,0,0>>, trail |-> TRUE, kw |-> TRUE, fnum |-> FALSE, ftrail |-> FALSE]
        }

(***************************************************************************)
(* main.cpp: the shared memory regions and the writer of the input thread  *)
(***************************************************************************)
\* registers of the shared memories the run is attached to
DoRegisters == 4
DiRegisters == 3
AoRegisters == 4
AiRegisters == 3

\* shm_do->get_size() etc.
do_elements == DoRegisters
di_elements == DiRegisters
ao_elements == (2 * AoRegisters) \div 2
ai_elements == (2 * AiRegisters) \div 2

\* an address below 2^24 as a natural number
U64ToNat(a) == a[6] * 65536 + a[7] * 256 + a[8]

\* input_data.address >= elements
OutOfRange(address, elements) == ~U64Lt(address, U64FromNat(elements))

\* get_addr<uint16_t *>()[address] = value: the two bytes of the register
StoreU16(mem, address, value, h) ==
    LET bytes == HostMem(<<value \div 256, value % 256>>, h)
    IN  [mem EXCEPT ![2 * address] = bytes[1], ![2 * address + 1] = bytes[2]]

\* uint8_t value = input_data.value ? 1 : 0
CoilValue(value) == IF value /= 0 THEN 1 ELSE 0

CurrentInstruction == result.instructions[k]

\* the fields joined with ':'
RECURSIVE Join(_)
Join(pieces) ==
    IF Len(pieces) = 0 THEN <<>>
    ELSE IF Len(pieces) = 1 THEN pieces[1]
    ELSE pieces[1] \o <<":">> \o Join(Tail(pieces))

\* the text of the line an input stands for
LineOf(in) ==
    (IF in.fprefix THEN <<"f", ":">> ELSE <<>>)
        \o Join(in.pieces) \o (IF in.trailing THEN <<":">> ELSE <<>>)

\* operator<< of an unsigned integer on std::cout (decimal)
RECURSIVE ToDecimal(_)
ToDecimal(n) ==
    IF n < 10 THEN <<DigitChars[n + 1]>>
    ELSE ToDecimal(n \div 10) \o <<DigitChars[(n % 10) + 1]>>

\* variant of the tag: the two identifiers exchanged
REGISTER_ENDIAN_exchanged == IF host = "big" THEN <<"u","1","6","l">> ELSE <<"u","1","6","b">>

\* endian::HostEndianness.isBig() ? "u16b" : "u16l"
REGISTER_ENDIAN == IF host = "big" THEN <<"u","1","6","b">> ELSE <<"u","1","6","l">>

\* the passthrough line of a coil: do:<address>:<value>
CoilCommand(reg, address, value) ==
    reg \o <<":">> \o ToDecimal(address) \o <<":">> \o ToDecimal(value)

\* the passthrough line of a register: ao:<address>:<value>:<REGISTER_ENDIAN>
RegisterCommand(reg, address, value) ==
    reg \o <<":">> \o ToDecimal(address) \o <<":">> \o ToDecimal(value)
        \o <<":">> \o REGISTER_ENDIAN

\* if (PASSTHROUGH) std::cout << command << std::endl
Passthrough(command) == IF PASSTHROUGH THEN Append(out, command) ELSE out

SEMAPHORE_ERROR_INC == 10
SEMAPHORE_ERROR_DEC == 1
SEMAPHORE_ERROR_MAX == 100

\* the process lives until exit() behind main's return ends it; the detached
\* input thread runs until then
Running == main_pc /= "exit"

\* main has returned: its locals (guard, semaphore, m, the shared memory
\* objects) are destroyed while the process has not ended yet
MainHasReturned == main_pc \in {"returned", "exit"}

\* variant of the catch block: the discarded line sets coil 0 of DO
DiscardLine_sets_coil(what) ==
    /\ diag' = Append(diag, what)
    /\ pc' = "read"
    /\ shm_do' = [shm_do EXCEPT ![0] = 1]
    /\ UNCHANGED <<k, shm_di, shm_ao, shm_ai, wlog>>

\* InputParser::parse threw: the line is discarded with a diagnostic
DiscardLine(what) ==
    /\ diag' = Append(diag, what)
    /\ pc' = "read"
    /\ UNCHANGED <<k, shm_do, shm_di, shm_ao, shm_ai, wlog>>

\* std::getline (readline->get_line) delivers a line; an interactive exit leaves the loop
ReadLine ==
    /\ Running
    /\ pc = "read" /\ ~terminate
    /\ nread < Len(stdin)
    /\ nread' = nread + 1
    /\ input' = stdin[nread']
    /\ line' = LineOf(input')
    /\ IF INTERACTIVE /\ line' = <<"e","x","i","t">>
       THEN pc' = "done" /\ terminate' = TRUE
       ELSE pc' = "parse" /\ UNCHANGED terminate
    /\ UNCHANGED <<options, stdin, result, k, shm_do, shm_di, shm_ao, shm_ai, diag, wlog,
                   mutex_m, semaphore, semaphore_error_counter, out, main_pc, calls>>

\* variant of the call: after a discarded line the parser stays in its failed state
ParseLine_failure_sticks ==
    /\ Running
    /\ pc = "parse"
    /\ result' = IF calls /= <<>> /\ ~result.ok THEN Throws("Failed to parse value")
                 ELSE parse(line, base_addr, base_value, host)
    /\ calls' = Append(calls, [line |-> line, result |-> result'])
    /\ IF result'.ok
       THEN /\ pc' = "lock"
            /\ k' = 1
            /\ UNCHANGED <<diag, shm_do, shm_di, shm_ao, shm_ai, wlog>>
       ELSE DiscardLine(result'.what)
    /\ UNCHANGED <<input, line, options, stdin, nread, terminate, mutex_m, semaphore,
                   semaphore_error_counter, out, main_pc>>

\* instructions = InputParser::parse(line, addr_base, value_base, VERBOSE)
ParseLine ==
    /\ Running
    /\ pc = "parse"
    /\ result' = parse(line, base_addr, base_value, host)
    /\ calls' = Append(calls, [line |-> line, result |-> result'])
    /\ IF result'.ok
       THEN /\ pc' = "lock"
            /\ k' = 1
            /\ UNCHANGED <<diag, shm_do, shm_di, shm_ao, shm_ai, wlog>>
       ELSE DiscardLine(result'.what)
    /\ UNCHANGED <<input, line, options, stdin, nread, terminate, mutex_m, semaphore,
                   semaphore_error_counter, out, main_pc>>

\* std::lock_guard<std::mutex> guard(m); if (semaphore).  Behind main's return
\* the unique_ptr is read while or after it is destroyed: either outcome
LockGuard ==
    /\ Running
    /\ pc = "lock" /\ mutex_m = "free"
    /\ mutex_m' = "input"
    /\ pc' \in IF semaphore = "none" THEN {"write"}
               ELSE IF MainHasReturned THEN {"wait", "write"}
               ELSE {"wait"}
    /\ UNCHANGED <<input, line, options, result, k, shm_do, shm_di, shm_ao, shm_ai, diag,
                   wlog, stdin, nread, terminate, semaphore, semaphore_error_counter, out,
                   main_pc, calls>>

\* semaphore->wait(SEMAPHORE_MAX_TIME) returns true
SemaphoreWait ==
    /\ Running
    /\ pc = "wait" /\ semaphore = "free"
    /\ semaphore' = "input"
    /\ semaphore_error_counter' =
          IF semaphore_error_counter - SEMAPHORE_ERROR_DEC < 0 THEN 0
          ELSE semaphore_error_counter - SEMAPHORE_ERROR_DEC
    /\ pc' = "write"
    /\ UNCHANGED <<input, line, options, result, k, shm_do, shm_di, shm_ao, shm_ai, diag,
                   wlog, stdin, nread, terminate, mutex_m, out, main_pc, calls>>

\* variant of the loop body: the thread gives up only above the maximum
SemaphoreTimeout_gives_up_late ==
    /\ Running
    /\ pc = "wait" /\ semaphore = "other"
    /\ semaphore_error_counter' = semaphore_error_counter + SEMAPHORE_ERROR_INC
    /\ IF semaphore_error_counter' > SEMAPHORE_ERROR_MAX
       THEN /\ diag' = diag \o <<"Failed to acquire semaphore",
                                 "Repeatedly failed to acquire the semaphore">>
            /\ pc' = "failed"
            /\ mutex_m' = "free"
       ELSE /\ diag' = Append(diag, "Failed to acquire semaphore")
            /\ UNCHANGED <<pc, mutex_m>>
    /\ UNCHANGED <<input, line, options, result, k, shm_do, shm_di, shm_ao, shm_ai,
                   wlog, stdin, nread, terminate, semaphore, out, main_pc, calls>>

\* semaphore->wait(SEMAPHORE_MAX_TIME) returns false: the body of the while loop
SemaphoreTimeout ==
    /\ Running
    /\ pc = "wait" /\ semaphore = "other"
    /\ semaphore_error_counter' = semaphore_error_counter + SEMAPHORE_ERROR_INC
    /\ IF semaphore_error_counter' >= SEMAPHORE_ERROR_MAX
       THEN /\ diag' = diag \o <<"Failed to acquire semaphore",
                                 "Repeatedly failed to acquire the semaphore">>
            /\ pc' = "failed"
            /\ mutex_m' = "free"
       ELSE /\ diag' = Append(diag, "Failed to acquire semaphore")
            /\ UNCHANGED <<pc, mutex_m>>
    /\ UNCHANGED <<input, line, options, result, k, shm_do, shm_di, shm_ao, shm_ai,
                   wlog, stdin, nread, terminate, semaphore, out, main_pc, calls>>

\* variant of case DO: the range check is made against the size of AO in bytes
WriteDO_wrong_region ==
    /\ Running
    /\ pc = "write" /\ k <= Len(result.instructions)
    /\ CurrentInstruction.register_type = "DO"
    /\ IF OutOfRange(CurrentInstruction.address, 2 * ao_elements)
       THEN /\ diag' = Append(diag, "address out of range")
            /\ UNCHANGED <<shm_do, wlog, out>>
       ELSE LET address == U64ToNat(CurrentInstruction.address)
                value   == CoilValue(CurrentInstruction.value)
            IN  /\ shm_do' = [shm_do EXCEPT ![address] = value]
                /\ wlog' = Append(wlog, [region |-> "DO", address |-> address, bytes |-> <<value>>])
                /\ out' = Passthrough(CoilCommand(<<"d","o">>, address, value))
                /\ UNCHANGED diag
    /\ k' = k + 1
    /\ UNCHANGED <<input, line, options, pc, result, shm_di, shm_ao, shm_ai, stdin, nread,
                   terminate, mutex_m, semaphore, semaphore_error_counter, main_pc, calls>>

\* case register_type_t::DO of the writer loop
WriteDO ==
    /\ Running
    /\ pc = "write" /\ k <= Len(result.instructions)
    /\ CurrentInstruction.register_type = "DO"
    /\ IF OutOfRange(CurrentInstruction.address, do_elements)
       THEN /\ diag' = Append(diag, "address out of range")
            /\ UNCHANGED <<shm_do, wlog, out>>
       ELSE LET address == U64ToNat(CurrentInstruction.address)
                value   == CoilValue(CurrentInstruction.value)
            IN  /\ shm_do' = [shm_do EXCEPT ![address] = value]
                /\ wlog' = Append(wlog, [region |-> "DO", address |-> address, bytes |-> <<value>>])
                /\ out' = Passthrough(CoilCommand(<<"d","o">>, address, value))
                /\ UNCHANGED diag
    /\ k' = k + 1
    /\ UNCHANGED <<input, line, options, pc, result, shm_di, shm_ao, shm_ai, stdin, nread,
                   terminate, mutex_m, semaphore, semaphore_error_counter, main_pc, calls>>

\* case register_type_t::DI of the writer loop
WriteDI ==
    /\ Running
    /\ pc = "write" /\ k <= Len(result.instructions)
    /\ CurrentInstruction.register_type = "DI"
    /\ IF OutOfRange(CurrentInstruction.address, di_elements)
       THEN /\ diag' = Append(diag, "address out of range")
            /\ UNCHANGED <<shm_di, wlog, out>>
       ELSE LET address == U64ToNat(CurrentInstruction.address)
                value   == CoilValue(CurrentInstruction.value)
            IN  /\ shm_di' = [shm_di EXCEPT ![address] = value]
                /\ wlog' = Append(wlog, [region |-> "DI", address |-> address, bytes |-> <<value>>])
                /\ out' = Passthrough(CoilCommand(<<"d","i">>, address, value))
                /\ UNCHANGED diag
    /\ k' = k + 1
    /\ UNCHANGED <<input, line, options, pc, result, shm_do, shm_ao, shm_ai, stdin, nread,
                   terminate, mutex_m, semaphore, semaphore_error_counter, main_pc, calls>>

\* case register_type_t::AO of the writer loop
WriteAO ==
    /\ Running
    /\ pc = "write" /\ k <= Len(result.instructions)
    /\ CurrentInstruction.register_type = "AO"
    /\ IF OutOfRange(CurrentInstruction.address, ao_elements)
       THEN /\ diag' = Append(diag, "address out of range")
            /\ UNCHANGED <<shm_ao, wlog, out>>
       ELSE LET address == U64ToNat(CurrentInstruction.address)
                mem     == StoreU16(shm_ao, address, CurrentInstruction.value, host)
            IN  /\ shm_ao' = mem
                /\ wlog' = Append(wlog, [region |-> "AO", address |-> address,
                                         bytes |-> <<mem[2 * address], mem[2 * address + 1]>>])
                /\ out' = Passthrough(RegisterCommand(<<"a","o">>, address,
                                                      CurrentInstruction.value))
                /\ UNCHANGED diag
    /\ k' = k + 1
    /\ UNCHANGED <<input, line, options, pc, result, shm_do, shm_di, shm_ai, stdin, nread,
                   terminate, mutex_m, semaphore, semaphore_error_counter, main_pc, calls>>

\* case register_type_t::AI of the writer loop
WriteAI ==
    /\ Running
    /\ pc = "write" /\ k <= Len(result.instructions)
    /\ CurrentInstruction.register_type = "AI"
    /\ IF OutOfRange(CurrentInstruction.address, ai_elements)
       THEN /\ diag' = Append(diag, "address out of range")
            /\ UNCHANGED <<shm_ai, wlog, out>>
       ELSE LET address == U64ToNat(CurrentInstruction.address)
                mem     == StoreU16(shm_ai, address, CurrentInstruction.value, host)
            IN  /\ shm_ai' = mem
                /\ wlog' = Append(wlog, [region |-> "AI", address |-> address,
                                         bytes |-> <<mem[2 * address], mem[2 * address + 1]>>])
                /\ out' = Passthrough(RegisterCommand(<<"a","i">>, address,
                                                      CurrentInstruction.value))
                /\ UNCHANGED diag
    /\ k' = k + 1
    /\ UNCHANGED <<input, line, options, pc, result, shm_do, shm_di, shm_ao, stdin, nread,
                   terminate, mutex_m, semaphore, semaphore_error_counter, main_pc, calls>>

\* variant of the end of the writer loop: the semaphore is not posted
EndOfLine_keeps_semaphore ==
    /\ Running
    /\ pc = "write" /\ k > Len(result.instructions)
    /\ mutex_m' = "free"
    /\ pc' = "read"
    /\ UNCHANGED <<input, line, options, result, k, shm_do, shm_di, shm_ao, shm_ai, diag,
                   wlog, stdin, nread, terminate, semaphore, semaphore_error_counter, out,
                   main_pc, calls>>

\* the writer loop has handled every Instruction of the line: the semaphore
\* is posted and the guard releases the mutex
EndOfLine ==
    /\ Running
    /\ pc = "write" /\ k > Len(result.instructions)
    /\ semaphore' \in IF semaphore /= "input" THEN {semaphore}
                      ELSE IF MainHasReturned THEN {"free", "input"}
                      ELSE {"free"}
    /\ mutex_m' = "free"
    /\ pc' = "read"
    /\ UNCHANGED <<input, line, options, result, k, shm_do, shm_di, shm_ao, shm_ai, diag,
                   wlog, stdin, nread, terminate, semaphore_error_counter, out, main_pc, calls>>

(***************************************************************************)
(* The lines read from stdin                                               *)
(***************************************************************************)
\* register type tokens: the four classes, mixed case, and two invalid ones
CLASS_TOKENS == {<<"d","o">>, <<"d","i">>, <<"a","o">>, <<"a","i">>,
                 <<"D","O">>, <<"A","i">>, <<"x","x">>, <<>>}

\* byte orders of the hosts the program is built for
HOSTS == {"little", "big"}

\* data type tokens: every identifier of the registry and an unknown one
UNKNOWN_TYPE == <<"u","9">>
DATA_TYPES == {e[1] : e \in PARSE_FUNCTIONS} \cup {UNKNOWN_TYPE}

\* the letters behind the '_' of a data type identifier
Letters(id) ==
    IF \E p \in 1..Len(id) : id[p] = "_"
    THEN SubSeq(id, (CHOOSE p \in 1..Len(id) : id[p] = "_") + 1, Len(id))
    ELSE <<>>

\* identifiers that spell the byte order out (u32_cdab), and the 8 bit ones
IsLetterId(id) ==
    /\ Letters(id) /= <<>>
    /\ \A q \in 1..Len(Letters(id)) : IndexOf(Letters(id)[q], LowerChars) \in 1..8
VERBOSE_TYPES == {d \in DATA_TYPES : IsLetterId(d) \/ (Len(d) >= 2 /\ d[2] = "8")}

\* a token that stands for "no token" in lines built field by field
NoToken == [txt |-> <<>>, kind |-> "bad", mag |-> U64Zero, trail |-> FALSE,
            kw |-> FALSE, fnum |-> FALSE, ftrail |-> FALSE]

\* a line reg_type:address:value
Input3(c, a, v) ==
    [family |-> "f3", cls |-> c, addr |-> a, val |-> v, dtype |-> <<>>,
     pieces |-> <<c, a.txt, v.txt>>, trailing |-> FALSE, fprefix |-> FALSE]

\* a line reg_type:address:value:data_type
Input4(c, a, v, d) ==
    [family |-> "f4", cls |-> c, addr |-> a, val |-> v, dtype |-> d,
     pieces |-> <<c, a.txt, v.txt, d>>, trailing |-> FALSE, fprefix |-> FALSE]

\* a line of any shape: fields, an optional trailing ':' and an optional f: prefix
InputShape(p, t, f) ==
    [family |-> "shape", cls |-> <<>>, addr |-> NoToken, val |-> NoToken, dtype |-> <<>>,
     pieces |-> p, trailing |-> t, fprefix |-> f]

\* a line given by its fields, in any letter case
InputText(p) ==
    [family |-> "text", cls |-> <<>>, addr |-> NoToken, val |-> NoToken, dtype |-> <<>>,
     pieces |-> p, trailing |-> FALSE, fprefix |-> FALSE]

\* most fields a line of the shape family is built from
MaxFields == 4

SHAPE_FIELDS == {<<"a","o">>, <<"1">>, <<"u","1","6","b">>, <<>>}

ShapePieces ==
    UNION {[1..n -> SHAPE_FIELDS] : n \in 0..MaxFields}
    \cup {<<<<"a","o">>, <<"1">>, <<"1">>, <<"u","1","6","b">>, <<"1">>>>,
          <<<<"a","o">>, <<"1">>, <<"1">>, <<"u","1","6","b">>, <<>>, <<>>>>}

\* the tokens of a table whose text is one of txts
Pick(tokens, txts) == {t \in tokens : t.txt \in txts}

\* value tokens handed to the float codecs
FloatValues(bv) == {v \in VALUE4_TOKENS(bv) : Len(v.txt) <= 4}

\* the lines stdin can deliver under bases ba and bv
Inputs3(ba, bv) ==
    {Input3(c, a, v) : c \in {<<"a","o">>, <<"d","o">>},
                       a \in ADDR_TOKENS(ba), v \in VALUE3_TOKENS(bv)}
    \cup {Input3(c, a, v) : c \in CLASS_TOKENS,
                            a \in Pick(ADDR_TOKENS(ba), {<<"3">>, <<"1","2","x">>}),
                            v \in Pick(VALUE3_TOKENS(bv), {<<"0">>, <<"7">>, <<"1","2","x">>, <<"e">>})}

Inputs4(ba, bv) ==
    {Input4(<<"a","o">>, a, v, d) :
         a \in Pick(ADDR4_TOKENS(ba), {<<"0">>}),
         v \in VALUE4_TOKENS(bv), d \in {t \in VERBOSE_TYPES : t[1] /= "f"}}
    \cup {Input4(<<"a","o">>, a, v, d) :
         a \in Pick(ADDR4_TOKENS(ba), {<<"0">>}),
         v \in FloatValues(bv), d \in {t \in VERBOSE_TYPES : t[1] = "f"}}
    \cup {Input4(c, a, v, d) :
         c \in {<<"a","i">>, <<"A","i">>}, a \in ADDR4_TOKENS(ba),
         v \in Pick(VALUE4_TOKENS(bv), {<<"1">>}), d \in DATA_TYPES}
    \cup {Input4(c, a, v, d) :
         c \in {<<"d","o">>, <<"d","i">>}, a \in Pick(ADDR4_TOKENS(ba), {<<"0">>}),
         v \in Pick(VALUE4_TOKENS(bv), {<<"1">>, <<"1","2","x">>}) \cup {NoToken},
         d \in DATA_TYPES}
    \cup {Input4(c, a, v, d) :
         c \in {<<"D","O">>, <<"x","x">>}, a \in Pick(ADDR4_TOKENS(ba), {<<"0">>, <<"1","2","x">>}),
         v \in Pick(VALUE4_TOKENS(bv), {<<"1">>}),
         d \in {<<"u","1","6","b">>, <<"f","3","2","_","a","b","c","d">>, UNKNOWN_TYPE}}

\* every value keyword of parse
KEYWORDS == KEYWORDS_ONE \cup KEYWORDS_ZERO
            \cup {<<"p","i">>, <<"n","p","i">>, <<"-","p","i">>, <<"s","q","r","t","2">>,
                  <<"s","q","r","t","3">>, <<"p","h","i">>, <<"l","n","2">>, <<"e">>}

\* the text in capital letters
ToUpper(str) ==
    [i \in 1..Len(str) |->
        IF IndexOf(str[i], LowerChars) > 0 THEN UpperChars[IndexOf(str[i], LowerChars)]
        ELSE str[i]]

\* lines with a value keyword: 3 fields, and 4 fields with an integer and two float types
KeywordPieces ==
    {<<c, <<"3">>, w>> : c \in {<<"a","o">>, <<"d","o">>}, w \in KEYWORDS}
    \cup {<<<<"a","o">>, <<"3">>, w, d>> :
             w \in KEYWORDS,
             d \in {<<"u","1","6","b">>, <<"f","3","2","b">>,
                    <<"f","6","4","_","a","b","c","d","e","f","g","h">>}}

\* lines in the legacy form f:R, R with and without a value, a data type, a second prefix
LegacyPieces ==
    {<<<<"f">>>> \o r : r \in
        {<<<<"a","o">>, <<"1">>, <<"1">>>>,
         <<<<"a","o">>, <<"2">>, <<"1",".","5">>>>,
         <<<<"a","i">>, <<"0">>, <<"p","i">>>>,
         <<<<"a","o">>, <<"1">>, <<"n","a","n">>>>,
         <<<<"d","o">>, <<"1">>, <<"1">>>>,
         <<<<"x","x">>, <<"1">>, <<"1">>>>,
         <<<<"a","o">>, <<"1">>, <<"1","2","x">>>>,
         <<<<"a","o">>, <<"1">>, <<"1">>, <<"u","1","6","b">>>>,
         <<<<"a","o">>, <<"1">>>>,
         <<<<"a","o">>>>,
         <<>>,
         <<<<"f">>, <<"a","o">>, <<"1">>>>,
         <<<<"f">>, <<"a","o">>, <<"1">>, <<"1">>>>,
         <<<<"a","o">>, <<"1">>, <<"f">>>>}}

\* lines with hexadecimal digits and prefixes, non-finite floats and a float exponent mark
HexPieces ==
    {<<<<"a","o">>, <<"0","x","1">>, <<"0","x","f","f">>>>,
     <<<<"a","i">>, <<"0","x","1">>, <<"0","x","f","e","d","c">>, <<"u","1","6","_","b","a">>>>,
     <<<<"a","i">>, <<"0">>, <<"0","x","f","f">>, <<"f","3","2","_","b","i","g">>>>,
     <<<<"a","o">>, <<"0">>, <<"i","n","f">>, <<"f","3","2","l">>>>,
     <<<<"a","o">>, <<"0">>, <<"n","a","n">>, <<"f","6","4","b">>>>,
     <<<<"a","o">>, <<"0">>, <<"m","a","x">>, <<"i","1","6","_","l","i","t","t","l","e">>>>}

\* the text lines as given, in capital letters, and with a capital first field
InputsText(ba, bv) ==
    {InputText(p) : p \in KeywordPieces \cup LegacyPieces \cup HexPieces}
    \cup {InputText([i \in 1..Len(p) |-> ToUpper(p[i])]) :
             p \in KeywordPieces \cup LegacyPieces \cup HexPieces}
    \cup {InputText([p EXCEPT ![1] = ToUpper(@)]) : p \in LegacyPieces \cup HexPieces}

InputsShape(ba, bv) ==
    IF ba = 0 /\ bv = 0
    THEN {InputShape(p, t, f) : p \in ShapePieces, t \in BOOLEAN, f \in BOOLEAN}
    ELSE {}

Inputs(ba, bv) ==
    Inputs3(ba, bv) \cup Inputs4(ba, bv) \cup InputsShape(ba, bv) \cup InputsText(ba, bv)

\* --address-base and --value-base of the runs
BASE_PAIRS == {<<0, 0>>, <<10, 16>>, <<16, 10>>}

\* the regions as the Modbus client created them
ZeroCoils(n) == [i \in 0..(n - 1) |-> 0]
ZeroBytes(n) == [i \in 0..(2 * n - 1) |-> 0]

\* the input thread has read one line from stdin and is about to parse it
Init ==
    /\ \E b \in BASE_PAIRS :
          /\ base_addr = b[1]
          /\ base_value = b[2]
          /\ input \in Inputs(b[1], b[2])
    /\ line = LineOf(input)
    /\ host \in HOSTS
    /\ pc = "parse"
    /\ result = Throws("")
    /\ k = 0
    /\ shm_do = ZeroCoils(do_elements)
    /\ shm_di = ZeroCoils(di_elements)
    /\ shm_ao = ZeroBytes(ao_elements)
    /\ shm_ai = ZeroBytes(ai_elements)
    /\ diag = <<>>
    /\ wlog = <<>>
    /\ stdin = <<input>>
    /\ nread = 1
    /\ PASSTHROUGH \in BOOLEAN
    /\ INTERACTIVE = FALSE
    /\ terminate = FALSE
    /\ mutex_m = "free"
    /\ semaphore = "none"
    /\ semaphore_error_counter = 0
    /\ out = <<>>
    /\ main_pc = "poll"
    /\ calls = <<>>

\* variant of the end of the input thread: it returns without setting terminate
EndOfInput_keeps_flag ==
    /\ Running
    /\ pc = "read" /\ ~terminate
    /\ nread = Len(stdin)
    /\ pc' = "done"
    /\ UNCHANGED <<input, line, options, result, k, shm_do, shm_di, shm_ao, shm_ai, diag,
                   wlog, stdin, nread, terminate, mutex_m, semaphore,
                   semaphore_error_counter, out, main_pc, calls>>

\* std::getline fails (readline->get_line throws) at the end of stdin: break,
\* and behind the loop terminate = true; return EX_OK
EndOfInput ==
    /\ Running
    /\ pc = "read" /\ ~terminate
    /\ nread = Len(stdin)
    /\ pc' = "done"
    /\ terminate' = TRUE
    /\ UNCHANGED <<input, line, options, result, k, shm_do, shm_di, shm_ao, shm_ai, diag,
                   wlog, stdin, nread, mutex_m, semaphore, semaphore_error_counter, out, main_pc, calls>>

Next ==
    \/ ParseLine
    \/ LockGuard
    \/ WriteDO
    \/ WriteDI
    \/ WriteAO
    \/ WriteAI
    \/ EndOfLine
    \/ EndOfInput

Spec == Init /\ [][Next]_vars

(***************************************************************************)
(* A whole run: the input thread reads stdin line by line until the end of *)
(* the input, the main thread polls terminate; another process shares the  *)
(* semaphore and signals can arrive.                                       *)
(***************************************************************************)
\* the lines of the runs: accepted (one register, a coil, two registers of
\* which one lies behind the end of AI, a coil behind the end of DO), rejected
\* by the parser, and exit
LINE_AO   == InputText(<<<<"a","o">>, <<"1">>, <<"7">>>>)
LINE_DI   == InputText(<<<<"d","i">>, <<"0">>, <<"5">>>>)
LINE_AI32 == InputText(<<<<"a","i">>, <<"2">>, <<"1">>, <<"u","3","2","_","a","b","c","d">>>>)
LINE_FAR  == InputText(<<<<"d","o">>, <<"9">>, <<"o","n">>>>)
LINE_BAD  == InputText(<<<<"a","o">>, <<"1">>, <<"x">>>>)
LINE_EXIT == InputText(<<<<"e","x","i","t">>>>)

RunLines == {LINE_AO, LINE_DI, LINE_AI32, LINE_FAR, LINE_BAD, LINE_EXIT}

\* the standard inputs of the runs: no line, one line, two lines, and a line
\* given twice with another line between
Scripts ==
    {<<>>}
    \cup {<<a>> : a \in RunLines}
    \cup {<<a, b>> : a \in RunLines, b \in RunLines}
    \cup {<<a, b, a>> : a \in {LINE_AO, LINE_BAD}, b \in RunLines}

\* the command lines of the runs: byte order of the host, --passthrough, a
\* terminal as stdin, --semaphore
RunOptions ==
    {[host |-> "little", passthrough |-> TRUE,  interactive |-> FALSE, semaphore |-> TRUE],
     [host |-> "big",    passthrough |-> TRUE,  interactive |-> TRUE,  semaphore |-> FALSE],
     [host |-> "little", passthrough |-> FALSE, interactive |-> TRUE,  semaphore |-> FALSE],
     [host |-> "big",    passthrough |-> FALSE, interactive |-> FALSE, semaphore |-> TRUE]}

\* main has started the input thread
InitRun ==
    /\ \E o \in RunOptions :
          /\ host = o.host
          /\ PASSTHROUGH = o.passthrough
          /\ INTERACTIVE = o.interactive
          /\ semaphore = IF o.semaphore THEN "free" ELSE "none"
    /\ base_addr = 0
    /\ base_value = 0
    /\ stdin \in Scripts
    /\ nread = 0
    /\ input = InputText(<<>>)
    /\ line = <<>>
    /\ pc = "read"
    /\ result = Throws("")
    /\ k = 0
    /\ shm_do = ZeroCoils(do_elements)
    /\ shm_di = ZeroCoils(di_elements)
    /\ shm_ao = ZeroBytes(ao_elements)
    /\ shm_ai = ZeroBytes(ai_elements)
    /\ diag = <<>>
    /\ wlog = <<>>
    /\ terminate = FALSE
    /\ mutex_m = "free"
    /\ semaphore_error_counter = 0
    /\ out = <<>>
    /\ main_pc = "poll"
    /\ calls = <<>>

\* while (!terminate) of the input thread finds terminate set: behind the
\* loop terminate = true; return EX_OK
LeaveLoop ==
    /\ Running
    /\ pc = "read" /\ terminate
    /\ pc' = "stopped"
    /\ UNCHANGED <<input, line, options, result, k, shm_do, shm_di, shm_ao, shm_ai, diag,
                   wlog, stdin, nread, terminate, mutex_m, semaphore,
                   semaphore_error_counter, out, main_pc, calls>>

\* the Modbus client (another process) takes the semaphore
ClientWait ==
    /\ Running
    /\ semaphore = "free"
    /\ semaphore' = "other"
    /\ UNCHANGED <<input, line, options, pc, result, k, shm_do, shm_di, shm_ao, shm_ai, diag,
                   wlog, stdin, nread, terminate, mutex_m, semaphore_error_counter, out,
                   main_pc, calls>>

\* the Modbus client posts the semaphore
ClientPost ==
    /\ Running
    /\ semaphore = "other"
    /\ semaphore' = "free"
    /\ UNCHANGED <<input, line, options, pc, result, k, shm_do, shm_di, shm_ao, shm_ai, diag,
                   wlog, stdin, nread, terminate, mutex_m, semaphore_error_counter, out,
                   main_pc, calls>>

\* term_sa.sa_handler: one of TERM_SIGNALS arrives
SignalHandler ==
    /\ Running
    /\ ~terminate
    /\ terminate' = TRUE
    /\ UNCHANGED <<input, line, options, pc, result, k, shm_do, shm_di, shm_ao, shm_ai, diag,
                   wlog, stdin, nread, mutex_m, semaphore, semaphore_error_counter, out,
                   main_pc, calls>>

\* --pid: kill(mb_client_pid, 0) fails, the Modbus client is gone
MainClientGone ==
    /\ main_pc = "poll" /\ ~terminate
    /\ terminate' = TRUE
    /\ main_pc' = "lock"
    /\ UNCHANGED <<input, line, options, pc, result, k, shm_do, shm_di, shm_ao, shm_ai, diag,
                   wlog, stdin, nread, mutex_m, semaphore, semaphore_error_counter, out,
                   calls>>

\* while (!terminate) of main finds terminate set
MainLeavesLoop ==
    /\ main_pc = "poll" /\ terminate
    /\ main_pc' = "lock"
    /\ UNCHANGED <<input, line, options, pc, result, k, shm_do, shm_di, shm_ao, shm_ai, diag,
                   wlog, stdin, nread, terminate, mutex_m, semaphore,
                   semaphore_error_counter, out, calls>>

\* variant of main's last statement: main waits until the input thread has ended
MainLocks_joins ==
    /\ main_pc = "lock" /\ mutex_m = "free"
    /\ pc \in {"done", "stopped", "failed"}
    /\ mutex_m' = "main"
    /\ main_pc' = "guard"
    /\ UNCHANGED <<input, line, options, pc, result, k, shm_do, shm_di, shm_ao, shm_ai, diag,
                   wlog, stdin, nread, terminate, semaphore, semaphore_error_counter, out,
                   calls>>

\* std::lock_guard<std::mutex> guard(m) of main: waits until the input thread
\* is not within a critical section
MainLocks ==
    /\ main_pc = "lock" /\ mutex_m = "free"
    /\ mutex_m' = "main"
    /\ main_pc' = "guard"
    /\ UNCHANGED <<input, line, options, pc, result, k, shm_do, shm_di, shm_ao, shm_ai, diag,
                   wlog, stdin, nread, terminate, semaphore, semaphore_error_counter, out,
                   calls>>

\* the closing brace of main: the guard releases m, then the other locals are
\* destroyed (the detached thread object leaves the input thread running)
MainReturns ==
    /\ main_pc = "guard"
    /\ mutex_m' = "free"
    /\ main_pc' = "returned"
    /\ UNCHANGED <<input, line, options, pc, result, k, shm_do, shm_di, shm_ao, shm_ai, diag,
                   wlog, stdin, nread, terminate, semaphore, semaphore_error_counter, out,
                   calls>>

\* exit() behind main's return ends the process and with it the input thread
\* (a fault of the input thread on a destroyed object ends it as well)
ProcessExit ==
    /\ main_pc = "returned"
    /\ main_pc' = "exit"
    /\ UNCHANGED <<input, line, options, pc, result, k, shm_do, shm_di, shm_ao, shm_ai, diag,
                   wlog, stdin, nread, terminate, mutex_m, semaphore,
                   semaphore_error_counter, out, calls>>

NextRun ==
    \/ ReadLine
    \/ EndOfInput
    \/ LeaveLoop
    \/ ParseLine
    \/ LockGuard
    \/ SemaphoreWait
    \/ SemaphoreTimeout
    \/ WriteDO
    \/ WriteDI
    \/ WriteAO
    \/ WriteAI
    \/ EndOfLine
    \/ ClientWait
    \/ ClientPost
    \/ SignalHandler
    \/ MainClientGone
    \/ MainLeavesLoop
    \/ MainLocks
    \/ MainReturns
    \/ ProcessExit

SpecRun == InitRun /\ [][NextRun]_vars

\* the scheduler lets the main thread run: its loop wakes up every 100 ms, the
\* mutex is handed over when it is free, and exit() ends the process
SpecLive ==
    SpecRun /\ WF_vars(MainLeavesLoop) /\ WF_vars(MainLocks) /\ WF_vars(MainReturns)
            /\ WF_vars(ProcessExit)

(***************************************************************************)
(* Properties                                                              *)
(***************************************************************************)
\* InputParser::parse has returned or thrown for the line
Parsed == pc /= "parse"

\* the writer is through with the line
Written == pc \in {"read", "done"}

\* the register class a class token names
ClassOf(c) ==
    LET low == [i \in 1..Len(c) |-> tolower(c[i])]
    IN  IF low = <<"d","o">> THEN "DO"
        ELSE IF low = <<"d","i">> THEN "DI"
        ELSE IF low = <<"a","o">> THEN "AO"
        ELSE IF low = <<"a","i">> THEN "AI"
        ELSE ""

\* the token is a numeral of its base that denotes a number below 2^64
IsNumeral(t) == t.kind = "num"

\* the number a numeral denotes is at most 65535
Fits16(t) == t.kind = "num" /\ \A i \in 1..6 : t.mag[i] = 0

\* the number a numeral denotes, as a natural number, when it is at most 65535
Low16(t) == t.mag[7] * 256 + t.mag[8]

\* the token denotes a number above 65535 or below 0
Beyond16(t) ==
    \/ t.kind = "huge"
    \/ t.kind = "num" /\ ~Fits16(t)
    \/ t.kind = "neg" /\ t.mag /= U64Zero

\* the token denotes the number 0
DenotesZero(t) == t.kind \in {"num", "neg"} /\ t.mag = U64Zero

\* C1: a 3-field line c:a:v with a valid class, a valid address numeral and a
\* valid value numeral denoting 0..65535 yields exactly one Instruction
\* (c, number of a, number of v), each numeral read in its own base.
C1_ThreeFieldLine ==
    (/\ Parsed
     /\ input.family = "f3"
     /\ ClassOf(input.cls) /= ""
     /\ IsNumeral(input.addr)
     /\ Fits16(input.val))
    => /\ result.ok
       /\ result.instructions =
             <<[register_type |-> ClassOf(input.cls),
                address       |-> input.addr.mag,
                value         |-> Low16(input.val)]>>

\* C1, for the value numerals that are no value keyword (all but `e` in base 16)
C1_ThreeFieldLineNoKeyword ==
    (/\ Parsed
     /\ input.family = "f3"
     /\ ClassOf(input.cls) /= ""
     /\ IsNumeral(input.addr)
     /\ Fits16(input.val)
     /\ ~input.val.kw)
    => /\ result.ok
       /\ result.instructions =
             <<[register_type |-> ClassOf(input.cls),
                address       |-> input.addr.mag,
                value         |-> Low16(input.val)]>>

\* C2: a 3-field line whose value token denotes a number above 65535 or a
\* negative number is rejected with the value parse failure; no Instruction
\* carries the number truncated modulo 2^16.
C2_OutOfRangeValueRejected ==
    (/\ Parsed
     /\ input.family = "f3"
     /\ ClassOf(input.cls) /= ""
     /\ IsNumeral(input.addr)
     /\ Beyond16(input.val))
    => /\ ~result.ok
       /\ result.what = "Failed to parse value"
       /\ result.instructions = <<>>

\* C3: an accepted 3-field do/di line with an address inside the region writes
\* the byte 1 when its value token denotes a number other than 0 and the byte 0
\* only when it denotes 0.
C3_CoilNormalised ==
    (/\ Written
     /\ input.family = "f3"
     /\ ClassOf(input.cls) \in {"DO", "DI"}
     /\ result.ok
     /\ input.val.kind \in {"num", "neg"}
     /\ Len(wlog) = 1)
    => /\ wlog[1].region = ClassOf(input.cls)
       /\ wlog[1].bytes = <<IF DenotesZero(input.val) THEN 0 ELSE 1>>

\* C3, for the value tokens that denote a number in 0..65535
C3_CoilNormalisedInRange ==
    (/\ Written
     /\ input.family = "f3"
     /\ ClassOf(input.cls) \in {"DO", "DI"}
     /\ result.ok
     /\ Fits16(input.val)
     /\ Len(wlog) = 1)
    => /\ wlog[1].region = ClassOf(input.cls)
       /\ wlog[1].bytes = <<IF DenotesZero(input.val) THEN 0 ELSE 1>>

\* C4: a 4-field line whose register class is do or di is rejected and yields
\* no Instruction and no write, whatever its data type and value tokens are.
C4_CoilDataTypeRejected ==
    (/\ Parsed
     /\ input.family = "f4"
     /\ ClassOf(input.cls) \in {"DO", "DI"})
    => /\ ~result.ok
       /\ result.instructions = <<>>
       /\ wlog = <<>>
       /\ shm_do = ZeroCoils(do_elements)
       /\ shm_di = ZeroCoils(di_elements)

\* a do line with a known data type and valid numerals was discarded for its data type
C4_Witness ==
    /\ pc = "read"
    /\ input.family = "f4"
    /\ input.cls = <<"d","o">>
    /\ input.dtype = <<"u","8","_","l","o">>
    /\ IsNumeral(input.addr)
    /\ IsNumeral(input.val)
    /\ diag = <<"Data type specification for coils is not allowed">>

\* number of ':' in a text
RECURSIVE NumDelims(_)
NumDelims(str) ==
    IF str = <<>> THEN 0
    ELSE (IF Head(str) = ":" THEN 1 ELSE 0) + NumDelims(Tail(str))

\* the text parse splits: a line that starts with f: (in either case) loses
\* that prefix and gains the field f32_badc
Effective(str) ==
    IF Len(str) >= 2 /\ str[1] \in {"f", "F"} /\ str[2] = ":"
    THEN SubSeq(str, 3, Len(str)) \o <<":", "f","3","2","_","b","a","d","c">>
    ELSE str

\* number of fields of a text, an empty field behind the last ':' not counted
NumFields(str) ==
    IF str = <<>> THEN 0
    ELSE IF str[Len(str)] = ":" THEN NumDelims(str)
    ELSE NumDelims(str) + 1

DelimiterError == "The input does not contain the appropriate number of delimiters"

\* C5 as stated: parse accepts a line only if it holds exactly 2 or 3 ':'
\* delimiters, and every line with another number of delimiters (a surplus
\* trailing ':' included) fails with the delimiter error and yields no
\* Instruction.
C5_DelimiterCount ==
    Parsed =>
       /\ result.ok => NumDelims(line) \in {2, 3}
       /\ NumDelims(line) \notin {2, 3} =>
             /\ ~result.ok
             /\ result.what = DelimiterError
             /\ result.instructions = <<>>

\* C5 amended: parse accepts a line only if the line, after the f: rewrite and
\* with an empty field behind the last ':' not counted, has exactly 3 or 4
\* fields; every line with another number of such fields, and no other line,
\* fails with the delimiter error and yields no Instruction.
C5_FieldCount ==
    Parsed =>
       /\ result.ok => NumFields(Effective(line)) \in {3, 4}
       /\ NumFields(Effective(line)) \notin {3, 4} <=>
             (~result.ok /\ result.what = DelimiterError)
       /\ ~result.ok => result.instructions = <<>> /\ wlog = <<>>

\* a line with a surplus trailing ':' (four delimiters) was accepted and written
C5_Witness ==
    /\ pc = "read"
    /\ line = <<"a","o",":","1",":","1",":","u","1","6","b",":">>
    /\ result.ok
    /\ Len(wlog) = 1

\* the token is a numeral followed by further characters, for the parser its field reaches
Trailing(in) ==
    \/ in.addr.trail
    \/ in.family = "f3" /\ in.val.trail
    \/ in.family = "f4" /\ in.dtype[1] /= "f" /\ in.val.trail
    \/ in.family = "f4" /\ in.dtype[1] = "f" /\ in.val.ftrail

INT_BASES == {0, 10, 16}

\* a call parse_int<T>(value, base) is about to be made
InitInt ==
    /\ base_value \in INT_BASES
    /\ \E T \in IntTypes, v \in VALUE4_TOKENS(base_value) :
          input = [family |-> "int", type |-> T, val |-> v]
    /\ line = input.val.txt
    /\ base_addr = 0
    /\ host \in HOSTS
    /\ pc = "call"
    /\ result = [ok |-> FALSE, ret |-> <<>>]
    /\ k = 0
    /\ shm_do = ZeroCoils(do_elements)
    /\ shm_di = ZeroCoils(di_elements)
    /\ shm_ao = ZeroBytes(ao_elements)
    /\ shm_ai = ZeroBytes(ai_elements)
    /\ diag = <<>>
    /\ wlog = <<>>
    /\ stdin = <<>>
    /\ nread = 0
    /\ PASSTHROUGH = FALSE
    /\ INTERACTIVE = FALSE
    /\ terminate = FALSE
    /\ mutex_m = "free"
    /\ semaphore = "none"
    /\ semaphore_error_counter = 0
    /\ out = <<>>
    /\ main_pc = "poll"
    /\ calls = <<>>

\* parse_int<T>(value, base) returns or throws
CallParseInt ==
    /\ pc = "call"
    /\ result' = parse_int(input.type, line, base_value)
    /\ pc' = "returned"
    /\ UNCHANGED <<input, line, options, k, shm_do, shm_di, shm_ao, shm_ai, diag, wlog,
                   stdin, nread, terminate, mutex_m, semaphore, semaphore_error_counter, out, main_pc,
                   calls>>

NextInt == CallParseInt

SpecInt == InitInt /\ [][NextInt]_vars

\* a <= b for magnitudes
MagLe(a, b) == a = b \/ U64Lt(a, b)

\* the largest magnitude of a non-negative and of a negative value of T
PosMaxMag(T) ==
    [i \in 1..8 |-> IF i < 9 - T.bits \div 8 THEN 0
                    ELSE IF T.signed /\ i = 9 - T.bits \div 8 THEN 127 ELSE 255]
NegMaxMag(T) ==
    [i \in 1..8 |-> IF T.signed /\ i = 9 - T.bits \div 8 THEN 128 ELSE 0]

\* the number the token denotes lies within [min, max] of T; a token with a
\* minus sign never does for an unsigned T
InRange(T, t) ==
    \/ t.kind = "num" /\ MagLe(t.mag, PosMaxMag(T))
    \/ t.kind = "neg" /\ T.signed /\ MagLe(t.mag, NegMaxMag(T))

\* the sizeof(T) bytes (most significant first) of the number the token denotes
ValueBytes(T, t) ==
    LET full == IF t.kind = "neg" THEN U64Neg(t.mag) ELSE t.mag
    IN  SubSeq(full, 9 - T.bits \div 8, 8)

IntKeywords == {<<"m","i","n">>, <<"m","a","x">>, <<"l","o","w","e","s","t">>}

\* C7: parse_int accepts a non-keyword token exactly when the number it
\* denotes lies within [min, max] of the target type and then returns exactly
\* that number; a token with a leading minus sign is rejected for every
\* unsigned type and nothing out of range is accepted wrapped or truncated.
\* (The token -0 with an unsigned type is left aside: it denotes 0.)
C7_ParseIntRange ==
    (/\ pc = "returned"
     /\ input.val.txt \notin IntKeywords
     /\ input.val.kind /= "lax"
     /\ ~(~input.type.signed /\ input.val.kind = "neg" /\ input.val.mag = U64Zero))
    => /\ result.ok <=> InRange(input.type, input.val)
       /\ result.ok => result.ret = ValueBytes(input.type, input.val)

\* C7, for the tokens without a minus sign and for the signed types
C7_ParseIntRangeNoMinusUnsigned ==
    (/\ pc = "returned"
     /\ input.val.txt \notin IntKeywords
     /\ input.val.kind /= "lax"
     /\ (input.type.signed \/ input.val.kind /= "neg"))
    => /\ result.ok <=> InRange(input.type, input.val)
       /\ result.ok => result.ret = ValueBytes(input.type, input.val)

\* registers a data type takes: one for 8 and 16 bit, two for 32, four for 64
Width(d) ==
    IF d[2] = "8" \/ (d[2] = "1" /\ d[3] = "6") THEN 1
    ELSE IF d[2] = "3" /\ d[3] = "2" THEN 2
    ELSE 4

\* C8: an accepted 4-field line with start address A and a data type of w
\* registers yields exactly w Instructions of the line's register class at
\* the addresses A, A+1, ..., A+w-1, ascending without wrap-around, and never
\* an empty list.
C8_ContiguousAddresses ==
    (/\ Parsed
     /\ input.family = "f4"
     /\ IsNumeral(input.addr)
     /\ result.ok)
    => /\ Len(result.instructions) = Width(input.dtype)
       /\ Len(result.instructions) > 0
       /\ \A i \in 1..Len(result.instructions) :
             /\ result.instructions[i].register_type = ClassOf(input.cls)
             /\ result.instructions[i].address = U64Add(input.addr.mag, i - 1)
             /\ MagLe(input.addr.mag, result.instructions[i].address)

\* C8, for the start addresses A with A+w-1 below 2^64
C8_ContiguousAddressesNoOverflow ==
    (/\ Parsed
     /\ input.family = "f4"
     /\ IsNumeral(input.addr)
     /\ MagLe(input.addr.mag, U64Add(input.addr.mag, 3))
     /\ result.ok)
    => /\ Len(result.instructions) = Width(input.dtype)
       /\ Len(result.instructions) > 0
       /\ \A i \in 1..Len(result.instructions) :
             /\ result.instructions[i].register_type = ClassOf(input.cls)
             /\ result.instructions[i].address = U64Add(input.addr.mag, i - 1)
             /\ MagLe(input.addr.mag, result.instructions[i].address)

\* the integer type a data type identifier with byte letters names
TypeOf(d) == [bits |-> 8 * Len(Letters(d)), signed |-> d[1] = "i"]

\* the first n bytes of the AO region, in address order
AoBytes(n) == [j \in 1..n |-> shm_ao[j - 1]]

\* the line is an ao line at address 0 with a 16, 32 or 64 bit integer type
\* spelled with byte letters, its value token denotes a number V of the
\* type's range, and the writer has stored every word
LetterLineWritten ==
    /\ Written
    /\ input.family = "f4"
    /\ input.cls = <<"a","o">>
    /\ input.addr.txt = <<"0">>
    /\ input.dtype[1] \in {"u", "i"}
    /\ IsLetterId(input.dtype)
    /\ InRange(TypeOf(input.dtype), input.val)
    /\ result.ok
    /\ Len(wlog) = Len(result.instructions)

\* C9: for every 16, 32 and 64 bit integer type and every value V of its
\* range, the words stored at ascending addresses (each in host byte order)
\* put the bytes of V in memory in the order the letters of the identifier
\* spell, a being the most significant byte; reading them back by that
\* permutation gives V, whatever the byte order of the host.
C9_LetterOrderInMemory ==
    LetterLineWritten =>
        LET letters == Letters(input.dtype)
            n       == Len(letters)
            V       == ValueBytes(TypeOf(input.dtype), input.val)
            mem     == AoBytes(n)
            pos(c)  == CHOOSE j \in 1..n : letters[j] = c
        IN  /\ n = 2 * Width(input.dtype)
            /\ \A j \in 1..n : mem[j] = V[IndexOf(letters[j], LowerChars)]
            /\ [m \in 1..n |-> mem[pos(LowerChars[m])]] = V

\* on a little endian host u32_cdab has put 0x01234567 in memory as 45 67 01 23
C9_Witness ==
    /\ pc = "read"
    /\ host = "little"
    /\ input.family = "f4"
    /\ input.dtype = <<"u","3","2","_","c","d","a","b">>
    /\ input.val.txt = <<"0","x","0","1","2","3","4","5","6","7">>
    /\ AoBytes(4) = <<69, 103, 1, 35>>

\* the data types with reversed register order, each with the type of the
\* same byte order that is not reversed
REV_TYPES == {
    <<<<"u","3","2","_","c","d","a","b">>, <<"u","3","2","_","a","b","c","d">>>>,
    <<<<"u","3","2","_","b","a","d","c">>, <<"u","3","2","_","d","c","b","a">>>>,
    <<<<"i","3","2","_","c","d","a","b">>, <<"i","3","2","_","a","b","c","d">>>>,
    <<<<"i","3","2","_","b","a","d","c">>, <<"i","3","2","_","d","c","b","a">>>>,
    <<<<"f","3","2","_","c","d","a","b">>, <<"f","3","2","_","a","b","c","d">>>>,
    <<<<"f","3","2","_","b","a","d","c">>, <<"f","3","2","_","d","c","b","a">>>>,
    <<<<"u","6","4","_","g","h","e","f","c","d","a","b">>, <<"u","6","4","_","a","b","c","d","e","f","g","h">>>>,
    <<<<"u","6","4","_","b","a","d","c","f","e","h","g">>, <<"u","6","4","_","h","g","f","e","d","c","b","a">>>>,
    <<<<"i","6","4","_","g","h","e","f","c","d","a","b">>, <<"i","6","4","_","a","b","c","d","e","f","g","h">>>>,
    <<<<"i","6","4","_","b","a","d","c","f","e","h","g">>, <<"i","6","4","_","h","g","f","e","d","c","b","a">>>>,
    <<<<"f","6","4","_","g","h","e","f","c","d","a","b">>, <<"f","6","4","_","a","b","c","d","e","f","g","h">>>>,
    <<<<"f","6","4","_","b","a","d","c","f","e","h","g">>, <<"f","6","4","_","h","g","f","e","d","c","b","a">>>>,
    <<<<"u","3","2","_","b","i","g","_","r","e","v">>, <<"u","3","2","_","b","i","g">>>>,
    <<<<"u","3","2","b","r">>, <<"u","3","2","b">>>>,
    <<<<"u","3","2","_","l","i","t","t","l","e","_","r","e","v">>, <<"u","3","2","_","l","i","t","t","l","e">>>>,
    <<<<"u","3","2","l","r">>, <<"u","3","2","l">>>>,
    <<<<"i","3","2","_","b","i","g","_","r","e","v">>, <<"i","3","2","_","b","i","g">>>>,
    <<<<"i","3","2","b","r">>, <<"i","3","2","b">>>>,
    <<<<"i","3","2","_","l","i","t","t","l","e","_","r","e","v">>, <<"i","3","2","_","l","i","t","t","l","e">>>>,
    <<<<"i","3","2","l","r">>, <<"i","3","2","l">>>>,
    <<<<"f","3","2","_","b","i","g","_","r","e","v">>, <<"f","3","2","_","b","i","g">>>>,
    <<<<"f","3","2","b","r">>, <<"f","3","2","b">>>>,
    <<<<"f","3","2","_","l","i","t","t","l","e","_","r","e","v">>, <<"f","3","2","_","l","i","t","t","l","e">>>>,
    <<<<"f","3","2","l","r">>, <<"f","3","2","l">>>>,
    <<<<"u","6","4","_","b","i","g","_","r","e","v">>, <<"u","6","4","_","b","i","g">>>>,
    <<<<"u","6","4","b","r">>, <<"u","6","4","b">>>>,
    <<<<"u","6","4","_","l","i","t","t","l","e","_","r","e","v">>, <<"u","6","4","_","l","i","t","t","l","e">>>>,
    <<<<"u","6","4","l","r">>, <<"u","6","4","l">>>>,
    <<<<"i","6","4","_","b","i","g","_","r","e","v">>, <<"i","6","4","_","b","i","g">>>>,
    <<<<"i","6","4","b","r">>, <<"i","6","4","b">>>>,
    <<<<"i","6","4","_","l","i","t","t","l","e","_","r","e","v">>, <<"i","6","4","_","l","i","t","t","l","e">>>>,
    <<<<"i","6","4","l","r">>, <<"i","6","4","l">>>>,
    <<<<"f","6","4","_","b","i","g","_","r","e","v">>, <<"f","6","4","_","b","i","g">>>>,
    <<<<"f","6","4","b","r">>, <<"f","6","4","b">>>>,
    <<<<"f","6","4","_","l","i","t","t","l","e","_","r","e","v">>, <<"f","6","4","_","l","i","t","t","l","e">>>>,
    <<<<"f","6","4","l","r">>, <<"f","6","4","l">>>>
}

\* the line of the input with its data type replaced by d
WithType(in, d) == LineOf(Input4(in.cls, in.addr, in.val, d))

\* C10: every type with reversed register order of 2 or 4 registers (integer
\* or float) yields the words of its counterpart that is not reversed in
\* fully reversed order at the same ascending addresses; u64_ghefcdab yields
\* [w3,w2,w1,w0] where u64_abcdefgh yields [w0,w1,w2,w3].
C10_FullReversal ==
    (/\ Parsed
     /\ input.family = "f4"
     /\ \E p \in REV_TYPES : p[1] = input.dtype)
    => LET plain == (CHOOSE p \in REV_TYPES : p[1] = input.dtype)[2]
           other == parse(WithType(input, plain), base_addr, base_value, host)
           n     == Len(result.instructions)
       IN  /\ result.ok = other.ok
           /\ Len(other.instructions) = n
           /\ result.ok => n = Width(input.dtype) /\ n \in {2, 4}
           /\ \A i \in 1..n :
                 /\ result.instructions[i].value = other.instructions[n + 1 - i].value
                 /\ result.instructions[i].address = other.instructions[i].address
                 /\ result.instructions[i].register_type = other.instructions[i].register_type

\* u64_ghefcdab has yielded the four words of 0x0123456789abcdef in reversed order
C10_Witness ==
    /\ Parsed
    /\ host = "big"
    /\ input.family = "f4"
    /\ input.dtype = <<"u","6","4","_","g","h","e","f","c","d","a","b">>
    /\ result.ok
    /\ [i \in 1..4 |-> result.instructions[i].value] = <<52719, 35243, 17767, 291>>

\* every floating literal the lines hand to strtof/strtod is one the model holds
FloatLiteralsKnown ==
    (Len(split_input(line)) = 4 /\ IsParseFunction(split_input(line)[4])
                                /\ split_input(line)[4][1] = "f") =>
        LET s == FloatScan(ConvertValueExpression(split_input(line)[3]))
        IN  s.none \/ FloatKnown(s.lit)

\* docs/index.md, data types: the identifiers listed together as one type
DOC_SPELLINGS == {
    {<<"f","3","2","_","a","b","c","d">>, <<"f","3","2","_","b","i","g">>, <<"f","3","2","b">>},
    {<<"f","3","2","_","d","c","b","a">>, <<"f","3","2","_","l","i","t","t","l","e">>, <<"f","3","2","l">>},
    {<<"f","3","2","_","c","d","a","b">>, <<"f","3","2","_","b","i","g","_","r","e","v">>, <<"f","3","2","b","r">>},
    {<<"f","3","2","_","b","a","d","c">>, <<"f","3","2","_","l","i","t","t","l","e","_","r","e","v">>, <<"f","3","2","l","r">>},
    {<<"f","6","4","_","a","b","c","d","e","f","g","h">>, <<"f","6","4","_","b","i","g">>, <<"f","6","4","b">>},
    {<<"f","6","4","_","g","h","e","f","c","d","a","b">>, <<"f","6","4","_","l","i","t","t","l","e">>, <<"f","6","4","l">>},
    {<<"f","6","4","_","b","a","d","c","f","e","h","g">>, <<"f","6","4","_","b","i","g","_","r","e","v">>, <<"f","6","4","b","r">>},
    {<<"f","6","4","_","h","g","f","e","d","c","b","a">>, <<"f","6","4","_","l","i","t","t","l","e","_","r","e","v">>, <<"f","6","4","l","r">>},
    {<<"i","1","6","_","a","b">>, <<"i","1","6","_","b","i","g">>, <<"i","1","6","b">>},
    {<<"i","1","6","_","b","a">>, <<"i","1","6","_","l","i","t","t","l","e">>, <<"i","1","6","l">>},
    {<<"u","1","6","_","a","b">>, <<"u","1","6","_","b","i","g">>, <<"u","1","6","b">>},
    {<<"u","1","6","_","b","a">>, <<"u","1","6","_","l","i","t","t","l","e">>, <<"u","1","6","l">>},
    {<<"i","3","2","_","a","b","c","d">>, <<"i","3","2","_","b","i","g">>, <<"i","3","2","b">>},
    {<<"i","3","2","_","d","c","b","a">>, <<"i","3","2","_","l","i","t","t","l","e">>, <<"i","3","2","l">>},
    {<<"i","3","2","_","c","d","a","b">>, <<"i","3","2","_","b","i","g","_","r","e","v">>, <<"i","3","2","b","r">>},
    {<<"i","3","2","_","b","a","d","c">>, <<"i","3","2","_","l","i","t","t","l","e","_","r","e","v">>, <<"i","3","2","l","r">>},
    {<<"u","3","2","_","a","b","c","d">>, <<"u","3","2","_","b","i","g">>, <<"u","3","2","b">>},
    {<<"u","3","2","_","d","c","b","a">>, <<"u","3","2","_","l","i","t","t","l","e">>, <<"u","3","2","l">>},
    {<<"u","3","2","_","c","d","a","b">>, <<"u","3","2","_","b","i","g","_","r","e","v">>, <<"u","3","2","b","r">>},
    {<<"u","3","2","_","b","a","d","c">>, <<"u","3","2","_","l","i","t","t","l","e","_","r","e","v">>, <<"u","3","2","l","r">>},
    {<<"i","6","4","_","a","b","c","d","e","f","g","h">>, <<"i","6","4","_","b","i","g">>, <<"i","6","4","b">>},
    {<<"i","6","4","_","h","g","f","e","d","c","b","a">>, <<"i","6","4","_","l","i","t","t","l","e">>, <<"i","6","4","l">>},
    {<<"i","6","4","_","g","h","e","f","c","d","a","b">>, <<"i","6","4","_","b","i","g","_","r","e","v">>, <<"i","6","4","b","r">>},
    {<<"i","6","4","_","b","a","d","c","f","e","h","g">>, <<"i","6","4","_","l","i","t","t","l","e","_","r","e","v">>, <<"i","6","4","l","r">>},
    {<<"u","6","4","_","a","b","c","d","e","f","g","h">>, <<"u","6","4","_","b","i","g">>, <<"u","6","4","b">>},
    {<<"u","6","4","_","h","g","f","e","d","c","b","a">>, <<"u","6","4","_","l","i","t","t","l","e">>, <<"u","6","4","l">>},
    {<<"u","6","4","_","g","h","e","f","c","d","a","b">>, <<"u","6","4","_","b","i","g","_","r","e","v">>, <<"u","6","4","b","r">>},
    {<<"u","6","4","_","b","a","d","c","f","e","h","g">>, <<"u","6","4","_","l","i","t","t","l","e","_","r","e","v">>, <<"u","6","4","l","r">>}
}

\* C11: the identifiers the documentation lists together as spellings of one
\* data type are interchangeable: a line with one of them has the outcome
\* (failure, or the same Instruction list) of the same line with any other
\* spelling of the group.
C11_SpellingsInterchangeable ==
    (/\ Parsed
     /\ input.family = "f4")
    => \A g \in DOC_SPELLINGS :
          input.dtype \in g =>
             \A d \in g : parse(WithType(input, d), base_addr, base_value, host) = result

\* the line is an accepted 4-field line with an 8 bit data type whose value
\* token denotes a number of the type's range
EightBitLineParsed ==
    /\ Parsed
    /\ input.family = "f4"
    /\ Len(input.dtype) = 5
    /\ input.dtype[2] = "8"
    /\ InRange([bits |-> 8, signed |-> input.dtype[1] = "i"], input.val)
    /\ result.ok

\* the 8 bit pattern (two's complement) of the number the value token denotes
Pattern8(t) == ValueBytes([bits |-> 8, signed |-> TRUE], t)[1]

\* C12: the single register an 8 bit data type emits holds the value's 8 bit
\* pattern in the selected byte and 0 in the other byte: u8_lo and i8_lo put
\* it in the low byte, u8_hi and i8_hi in the high byte; a negative value is
\* never sign-extended into the other byte.
C12_EightBitPlacement ==
    EightBitLineParsed =>
        /\ Len(result.instructions) = 1
        /\ result.instructions[1].value =
              IF SubSeq(input.dtype, 4, 5) = <<"l","o">>
              THEN Pattern8(input.val)
              ELSE 256 * Pattern8(input.val)

\* the placement with the selected byte taken by its place in memory: the register is
\* stored with the pattern in its first byte for u8_lo and i8_lo and in its
\* second byte for u8_hi and i8_hi, the other byte being 0
EightBitPlacementInMemory ==
    (EightBitLineParsed /\ Written /\ input.cls = <<"a","o">> /\ input.addr.txt = <<"0">>)
    => AoBytes(2) = IF SubSeq(input.dtype, 4, 5) = <<"l","o">>
                    THEN <<Pattern8(input.val), 0>>
                    ELSE <<0, Pattern8(input.val)>>

\* the decimal literal the documentation gives for a value keyword
KeywordLiteral(w) ==
    IF w \in {<<"t","r","u","e">>, <<"o","n","e">>, <<"h","i","g","h">>,
              <<"a","c","t","i","v","e">>, <<"o","n">>, <<"e","n","a","b","l","e","d">>}
    THEN <<"1">>
    ELSE IF w \in {<<"f","a","l","s","e">>, <<"z","e","r","o">>, <<"l","o","w">>,
                   <<"i","n","a","c","t","i","v","e">>, <<"o","f","f">>,
                   <<"d","i","s","a","b","l","e","d">>}
    THEN <<"0">>
    ELSE IF w = <<"p","i">> THEN PI
    ELSE IF w \in {<<"-","p","i">>, <<"n","p","i">>} THEN NPI
    ELSE IF w = <<"s","q","r","t","2">> THEN SQRT2
    ELSE IF w = <<"s","q","r","t","3">> THEN SQRT3
    ELSE IF w = <<"p","h","i">> THEN PHI
    ELSE IF w = <<"l","n","2">> THEN LN2
    ELSE E

\* the line has a value field and that field is a value keyword
KeywordLine ==
    /\ input.family \in {"f3", "f4", "text"}
    /\ Len(input.pieces) \in {3, 4}
    /\ input.pieces[1] \notin {<<"f">>, <<"F">>}
    /\ input.pieces[3] \in KEYWORDS

\* C13: value keywords are substituted before any numeric parsing: a line
\* whose value field is a keyword has the outcome of the same line with the
\* keyword's literal (1, 0 or the decimal literal of the constant) in its
\* place, for every register class, address, optional data type and bases.
C13_KeywordSubstitution ==
    (Parsed /\ KeywordLine)
    => result = parse(Join([input.pieces EXCEPT ![3] = KeywordLiteral(@)]),
                      base_addr, base_value, host)

\* ao:3:true:f32b was written: two registers, at 3 and 4, that hold 1.0
C13_Witness ==
    /\ pc = "read"
    /\ line = <<"a","o",":","3",":","t","r","u","e",":","f","3","2","b">>
    /\ result.ok
    /\ [i \in 1..2 |-> U64ToNat(result.instructions[i].address)] = <<3, 4>>
    /\ Len(result.instructions) = 2
    /\ result.instructions[2].value = 0
    /\ <<shm_ao[6], shm_ao[7]>> = <<63, 128>>

\* the line starts with the legacy prefix, in either letter case
LegacyLine == Len(line) >= 2 /\ line[1] \in {"f", "F"} /\ line[2] = ":"

\* R + ":f32_badc" tokenized directly: split at ':' and parsed field by
\* field, no prefix being looked for
TokenizedDirectly(R) ==
    parse_fields(split_string(ToLower(R) \o <<":", "f","3","2","_","b","a","d","c">>,
                              DELIMITER, MAX_SPLIT_DEFAULT),
                 base_addr, base_value, host)

\* C14: a line f:R (prefix in either letter case) has the outcome of R with
\* :f32_badc appended, tokenized directly: the same Instruction list when
\* that succeeds and a failure when it fails; the rewrite is applied once, a
\* second prefix in R is not removed.
C14_LegacyShorthand ==
    (Parsed /\ LegacyLine)
    => result = TokenizedDirectly(SubSeq(line, 3, Len(line)))

\* F:ao:2:1.5 was written: registers 2 and 3 hold 1.5 as a little endian float
\* in reversed register order (bytes b a d c)
C14_Witness ==
    /\ pc = "read"
    /\ line = <<"F",":","a","o",":","2",":","1",".","5">>
    /\ result.ok
    /\ [i \in 1..Len(result.instructions) |-> U64ToNat(result.instructions[i].address)] = <<2, 3>>
    /\ [j \in 1..4 |-> shm_ao[j + 3]] = <<192, 63, 0, 0>>

\* the line holds a capital letter
HasCapital(str) == \E i \in 1..Len(str) : IndexOf(str[i], UpperChars) > 0

\* the line with every capital letter replaced by its small letter
LowerCased(str) ==
    [i \in 1..Len(str) |->
        IF IndexOf(str[i], UpperChars) > 0 THEN LowerChars[IndexOf(str[i], UpperChars)]
        ELSE str[i]]

\* C15: parsing is case-insensitive over the whole line: for every line and
\* every pair of bases the outcome of parse equals the outcome of parse on the
\* lower-cased line (register class, value keyword, hexadecimal digits and
\* prefixes, data type identifier, f: prefix).
C15_CaseInsensitive ==
    Parsed => result = parse(LowerCased(line), base_addr, base_value, host)

\* AI:0X1:0XFEDC:U16_BA was written as ai:0x1:0xfedc:u16_ba is: register 1 of
\* AI holds dc fe
C15_Witness ==
    /\ pc = "read"
    /\ line = <<"A","I",":","0","X","1",":","0","X","F","E","D","C",":","U","1","6","_","B","A">>
    /\ HasCapital(line)
    /\ result.ok
    /\ <<shm_ai[2], shm_ai[3]>> = <<220, 254>>

\* a line in capital letters with a value keyword and a float type was accepted
C15_WitnessKeyword ==
    /\ pc = "read"
    /\ line = <<"A","O",":","3",":","S","Q","R","T","2",":","F","3","2","B">>
    /\ result.ok

Untouched ==
    [do |-> ZeroCoils(do_elements), di |-> ZeroCoils(di_elements),
     ao |-> ZeroBytes(ao_elements), ai |-> ZeroBytes(ai_elements),
     wlog |-> <<>>, out |-> <<>>]

\* one Instruction handled by the writer, as a function of what was there before
Handled(st, ins) ==
    LET elements == CASE ins.register_type = "DO" -> do_elements
                      [] ins.register_type = "DI" -> di_elements
                      [] ins.register_type = "AO" -> ao_elements
                      [] ins.register_type = "AI" -> ai_elements
        address  == U64ToNat(ins.address)
        coil     == IF ins.value = 0 THEN 0 ELSE 1
        bytes    == HostMem(<<ins.value \div 256, ins.value % 256>>, host)
        reg(mem) == [mem EXCEPT ![2 * address] = bytes[1], ![2 * address + 1] = bytes[2]]
        said(t)  == IF PASSTHROUGH THEN Append(st.out, t) ELSE st.out
        log(b)   == Append(st.wlog, [region |-> ins.register_type, address |-> address,
                                     bytes |-> b])
    IN  IF OutOfRange(ins.address, elements) THEN st
        ELSE CASE ins.register_type = "DO" ->
                    [st EXCEPT !.do = [@ EXCEPT ![address] = coil], !.wlog = log(<<coil>>),
                               !.out = said(CoilCommand(<<"d","o">>, address, coil))]
               [] ins.register_type = "DI" ->
                    [st EXCEPT !.di = [@ EXCEPT ![address] = coil], !.wlog = log(<<coil>>),
                               !.out = said(CoilCommand(<<"d","i">>, address, coil))]
               [] ins.register_type = "AO" ->
                    [st EXCEPT !.ao = reg(@), !.wlog = log(bytes),
                               !.out = said(RegisterCommand(<<"a","o">>, address, ins.value))]
               [] ins.register_type = "AI" ->
                    [st EXCEPT !.ai = reg(@), !.wlog = log(bytes),
                               !.out = said(RegisterCommand(<<"a","i">>, address, ins.value))]

\* the Instructions of the calls cs, one list after the other
RECURSIVE InstructionsOf(_)
InstructionsOf(cs) ==
    IF cs = <<>> THEN <<>> ELSE Head(cs).result.instructions \o InstructionsOf(Tail(cs))

\* the writer applied to a list of Instructions
RECURSIVE Replay(_, _)
Replay(st, instructions) ==
    IF instructions = <<>> THEN st
    ELSE Replay(Handled(st, Head(instructions)), Tail(instructions))

\* the calls of parse that returned Instructions
AcceptedCalls == SelectSeq(calls, LAMBDA c : c.result.ok)

\* the input thread is between two lines, or has ended at the top of its loop
BetweenLines == pc \in {"read", "parse", "done", "stopped"}

\* what the run has written so far
Effects ==
    [do |-> shm_do, di |-> shm_di, ao |-> shm_ao, ai |-> shm_ai, wlog |-> wlog, out |-> out]

\* the step in which the input thread discards the line parse rejected
DiscardStep == pc = "parse" /\ pc' = "read"

\* C17: a line rejected by the parser has no effect beyond a diagnostic: the
\* step that discards it writes no register of any region, leaves the
\* semaphore, the semaphore error counter and the mutex as they are and
\* prints no passthrough line, and the input loop goes on; between two lines
\* the regions, the writes and the passthrough lines are those of a run that
\* was given the accepted lines only.
C17_RejectedLineNoEffect ==
    /\ [][DiscardStep =>
            /\ Len(diag') = Len(diag) + 1
            /\ UNCHANGED <<shm_do, shm_di, shm_ao, shm_ai, wlog, out, semaphore,
                           semaphore_error_counter, mutex_m, terminate, stdin, nread>>]_vars
    /\ [](BetweenLines => Effects = Replay(Untouched, InstructionsOf(AcceptedCalls)))

\* with a semaphore, ao:1:x was discarded and the next line, ao:1:7, was
\* written as the only write of the run
C17_Witness ==
    /\ pc = "read"
    /\ semaphore = "free"
    /\ Len(calls) = 2
    /\ ~calls[1].result.ok /\ calls[2].result.ok
    /\ diag = <<"Failed to parse value">>
    /\ wlog = <<[region |-> "AO", address |-> 1, bytes |-> <<7, 0>>]>>
    /\ out = <<<<"a","o",":","1",":","7",":","u","1","6","l">>>>
    /\ semaphore_error_counter = 0

\* element count of a region: its size in bytes for DO and DI, half its size
\* in bytes for AO and AI
Elements(region) ==
    CASE region = "DO" -> Cardinality(DOMAIN shm_do)
      [] region = "DI" -> Cardinality(DOMAIN shm_di)
      [] region = "AO" -> Cardinality(DOMAIN shm_ao) \div 2
      [] region = "AI" -> Cardinality(DOMAIN shm_ai) \div 2

\* the Instructions of the line the writer has handled so far
HandledSoFar ==
    IF pc = "write" THEN SubSeq(result.instructions, 1, k - 1)
    ELSE IF pc \in {"read", "done"} /\ result.ok THEN result.instructions
    ELSE <<>>

\* the address is smaller than the element count of the Instruction's region
InRegion(ins) == U64Lt(ins.address, U64FromNat(Elements(ins.register_type)))

\* C18: the writer never stores outside a region: every write to DO, DI, AO
\* or AI is at an address strictly smaller than the region's element count,
\* the regions keep their sizes, and every Instruction whose address is not
\* smaller is skipped with an 'address out of range' diagnostic: the writes
\* of a line are exactly its Instructions with an address inside the region.
C18_WritesInsideRegion ==
    /\ \A i \in DOMAIN wlog : wlog[i].address < Elements(wlog[i].region)
    /\ DOMAIN shm_do = 0..(DoRegisters - 1) /\ DOMAIN shm_ao = 0..(2 * AoRegisters - 1)
    /\ DOMAIN shm_di = 0..(DiRegisters - 1) /\ DOMAIN shm_ai = 0..(2 * AiRegisters - 1)
    /\ pc \in {"write", "read", "done"} =>
          /\ Len(wlog) = Len(SelectSeq(HandledSoFar, InRegion))
          /\ Len(SelectSeq(diag, LAMBDA d : d = "address out of range"))
                = Len(HandledSoFar) - Len(wlog)

\* a line of two registers was handled at the end of a region: the first was
\* written, the second skipped with the diagnostic
C18_Witness ==
    /\ pc = "read"
    /\ result.ok
    /\ Len(result.instructions) = 2
    /\ Len(wlog) = 1
    /\ wlog[1].address = Elements(wlog[1].region) - 1
    /\ diag = <<"address out of range">>

\* reading a line has reported the end of the input, or the interactive user
\* has entered exit
EndReported == pc = "done"

\* the last line read was the interactive exit
ExitEntered == INTERACTIVE /\ nread > 0 /\ LineOf(stdin[nread]) = <<"e","x","i","t">>

\* every line read so far has been parsed and, if valid, written: the input
\* thread holds neither the mutex nor the semaphore
AllProcessed ==
    /\ Len(calls) = IF ExitEntered THEN nread - 1 ELSE nread
    /\ \A i \in DOMAIN calls : calls[i].line = LineOf(stdin[i])
    /\ Effects = Replay(Untouched, InstructionsOf(AcceptedCalls))
    /\ mutex_m /= "input"
    /\ semaphore /= "input"

\* C19: the application terminates as soon as no more input can be read: once
\* reading a line reports the end of the input (or the interactive user
\* enters exit) the terminate flag is set and every line read before has been
\* completely processed, and from then on the main thread eventually leaves
\* main.
C19_TerminatesAtEndOfInput ==
    /\ [](EndReported => (terminate /\ AllProcessed))
    /\ (EndReported ~> main_pc = "exit")

\* main has returned after the end of a standard input of two lines, which
\* were read and written
C19_Witness ==
    /\ main_pc = "exit"
    /\ EndReported
    /\ ~INTERACTIVE
    /\ nread = 2 /\ nread = Len(stdin)
    /\ Len(wlog) = 2

\* main has returned after the interactive user entered exit behind a line
C19_WitnessExit ==
    /\ main_pc = "exit"
    /\ EndReported
    /\ ExitEntered
    /\ Len(calls) = 1

\* default_value("0") of --address-base and --value-base
DEFAULT_BASE == 0

\* the line fed to the application under the default bases
FedBack(command) == parse(command, DEFAULT_BASE, DEFAULT_BASE, host)

\* an emitted line of a register without its data type: ao:<address>:<value>
Untagged(command) == SubSeq(command, 1, Len(command) - 5)

\* feeding the emitted line back performs exactly the write w: one
\* Instruction, inside its region, storing the same bytes at the same
\* register; for ao and ai the line without its tag does the same
ReproducedBy(r, command, w) ==
    /\ r.ok
    /\ Len(r.instructions) = 1
    /\ Replay(Untouched, r.instructions).wlog = <<w>>
    /\ w.region \in {"AO", "AI"} =>
          /\ SubSeq(command, Len(command) - 3, Len(command))
                = (IF host = "big" THEN <<"u","1","6","b">> ELSE <<"u","1","6","l">>)
          /\ FedBack(Untagged(command)) = r

Reproduces(command, w) == ReproducedBy(FedBack(command), command, w)

NoPassthroughNoOutput == ~PASSTHROUGH => out = <<>>

(***************************************************************************)
(* Properties of the threads: semaphore, mutex, termination                *)
(***************************************************************************)
\* --semaphore was given
SemaphoreConfigured == semaphore /= "none"

\* the step writes a register
WriteStep == wlog' /= wlog

\* the step in which this process gives the semaphore back
PostStep == semaphore = "input" /\ semaphore' /= "input"

\* the input thread is between the lines or gone
OutsideSection == pc \in {"read", "parse", "lock", "done", "stopped", "failed"}

\* what the writer loop does to the semaphore in one step
SemaphoreStep ==
    /\ WriteStep => (semaphore = "input" /\ semaphore' = "input")
    /\ (pc = "write" /\ pc' = "write") => (semaphore = "input" /\ semaphore' = "input")
    /\ PostStep => /\ pc = "write" /\ k > Len(result.instructions)
                   /\ pc' = "read" /\ semaphore' = "free"
    /\ (semaphore /= "input" /\ semaphore' /= semaphore) =>
          (<<semaphore, semaphore'>> \in {<<"free", "other">>, <<"other", "free">>}
           \/ (pc = "wait" /\ semaphore = "free" /\ semaphore' = "input"))

\* where the semaphore is held
SemaphoreHeld ==
    /\ pc = "write" => semaphore = "input"
    /\ OutsideSection => semaphore /= "input"

WritesUnderSemaphoreBehindReturn ==
    /\ [][SemaphoreConfigured => SemaphoreStep]_vars
    /\ [](SemaphoreConfigured => SemaphoreHeld)

SemaphorePosted ==
    /\ ~MainHasReturned
    /\ pc = "read" /\ semaphore = "free"
    /\ wlog /= <<>>

\* the input thread is inside the section that m protects
InsideSection == pc \in {"wait", "write"}

\* the input thread is on its way into the section: it waits for m, or it is
\* about to parse a line that is valid
CanStillEnter ==
    \/ pc = "lock"
    \/ pc = "parse" /\ parse(line, base_addr, base_value, host).ok

\* C22: the program is not terminated while it writes to shared memory: once
\* main has returned (its guard released, the mutex, the semaphore and the
\* shared memory objects destroyed) the input thread is neither inside the
\* section that the mutex protects nor able to enter it.
C22_NotTerminatedWhileWriting == MainHasReturned => ~(InsideSection \/ CanStillEnter)

\* no register is written behind main's return: does not hold either
NoWriteBehindReturn == [][MainHasReturned => ~WriteStep]_vars

\* main does not get the mutex while the input thread is inside the section
MainWaitsForSection == main_pc = "guard" => ~InsideSection

\* the input thread has given up on the semaphore: "Repeatedly failed to
\* acquire the semaphore", return EX_SOFTWARE
GaveUp == pc = "failed"

\* C23: if the semaphore cannot be acquired until the error counter reaches
\* its maximum, the application stops: once the input thread has given up,
\* the main thread leaves its loop and the process ends, without a signal
\* and without further input.
C23_StopsAfterSemaphoreFailure == GaveUp ~> main_pc = "exit"

\* the input thread gives up with the mutex released, terminate as it was
GaveUpLeavesFlag == [][(pc = "wait" /\ pc' = "failed") =>
                          (mutex_m' = "free" /\ terminate' = terminate)]_vars

\* when the input thread has given up, terminate is set, so that main's loop
\* ends by itself: does not hold
GaveUpSetsTerminate == GaveUp => terminate

\* the step is a wait that timed out / a wait that succeeded
TimeoutStep == pc = "wait" /\ semaphore_error_counter' > semaphore_error_counter
AcquireStep == pc = "wait" /\ pc' = "write"

\* C24: the semaphore error counter: a wait that times out adds 10, a wait
\* that succeeds subtracts 1 but not below 0, and nothing else changes the
\* counter; the input thread gives up in exactly the timeouts that bring the
\* counter to 100 or more; so the counter is between 0 and 99 as long as the
\* input thread has not given up, no register is written with a counter of
\* 100 or more, and a timeout leaves the line, its Instructions and the
\* position in stdin as they are: the wait is repeated for the same line
\* until it succeeds or the thread gives up.
C24_SemaphoreErrorCounter ==
    /\ [][/\ semaphore_error_counter' /= semaphore_error_counter => (TimeoutStep \/ AcquireStep)
          /\ TimeoutStep =>
                /\ semaphore_error_counter' = semaphore_error_counter + 10
                /\ (pc' = "failed") <=> (semaphore_error_counter' >= 100)
                /\ pc' \in {"wait", "failed"}
                /\ UNCHANGED <<line, result, k, nread, wlog>>
          /\ AcquireStep =>
                /\ semaphore_error_counter' =
                      IF semaphore_error_counter = 0 THEN 0 ELSE semaphore_error_counter - 1
                /\ UNCHANGED <<line, result, k, nread, wlog>>
          /\ (pc = "wait" /\ pc' /= "wait") => pc' \in {"write", "failed"}
          /\ WriteStep => semaphore_error_counter < 100]_vars
    /\ [](IF GaveUp THEN semaphore_error_counter >= 100
          ELSE semaphore_error_counter \in 0..99)

\* the counter stands at 99 and the input thread still waits for the
\* semaphore, for the second line of the run
C24_Witness ==
    /\ pc = "wait"
    /\ semaphore_error_counter = 99
    /\ nread = 2

\* a register was written after nine timeouts for its line
WrittenAfterTimeouts ==
    /\ pc = "write" /\ wlog /= <<>>
    /\ semaphore_error_counter = 89
    /\ nread = 1

(***************************************************************************)
(* Properties of the writer loop                                           *)
(***************************************************************************)
\* the writer has reported "address out of range" for the line
ReportedOutOfRange == \E i \in DOMAIN diag : diag[i] = "address out of range"

\* no register of any region has been written
NothingWritten ==
    /\ wlog = <<>>
    /\ shm_do = ZeroCoils(do_elements) /\ shm_di = ZeroCoils(di_elements)
    /\ shm_ao = ZeroBytes(ao_elements) /\ shm_ai = ZeroBytes(ai_elements)

\* C25: a line that the writer reports as discarded for an address out of
\* range changes no register: when the line has been handled and one of its
\* registers lay outside the region, none of its registers has been written.
C25_OutOfRangeAllOrNone ==
    (pc = "read" /\ result.ok /\ ReportedOutOfRange) => NothingWritten

\* each Instruction is checked by itself: the registers of the line that lie
\* inside the region are written, in order, and the others are skipped
OutOfRangePerRegister ==
    (pc = "read" /\ result.ok) =>
       /\ Len(wlog) + Len(diag) = Len(result.instructions)
       /\ Len(wlog) = Cardinality({i \in DOMAIN result.instructions :
                                      InRegion(result.instructions[i])})

(***************************************************************************)
(* InputParser::parse on its own: one call per behaviour                   *)
(***************************************************************************)
\* the data type identifiers of the float codecs
FLOAT_TYPES == {e[1] : e \in {f \in PARSE_FUNCTIONS : f[1][1] = "f"}}

\* the limit keywords of parse_float and parse_double, and the special values
FLOAT_LIMIT_KEYWORDS == {STR_min, STR_max, <<"e","p","s","i","l","o","n">>, STR_lowest}
FLOAT_SPECIALS == {STR_nan, STR_inf, STR_ninf}

\* ao/ai lines with a limit keyword or a special value and a float data type
FloatLimitPieces ==
    {<<c, <<"0">>, v, d>> : c \in {<<"a","o">>, <<"a","i">>},
                            v \in FLOAT_LIMIT_KEYWORDS \cup FLOAT_SPECIALS,
                            d \in FLOAT_TYPES}

\* a token that is no numeral in any base
MALFORMED == <<"1","2","?">>

\* tokens of the lines with several faults: a class that exists, a discrete
\* one and none; an address and a malformed one; a value, a malformed one and
\* one beyond 16 bits; a data type of 16 bits and an unknown one
FAULT_CLASSES == {<<"a","o">>, <<"d","i">>, <<"x","x">>}
FAULT_ADDRS   == {<<"0">>, MALFORMED}
FAULT_VALUES  == {<<"1">>, MALFORMED, <<"7","0","0","0","0">>}
FAULT_TYPES   == {<<"u","1","6","b">>, UNKNOWN_TYPE}

\* lines of 2, 3, 4 and 5 fields from those tokens
FaultPieces ==
    {<<c, a>> : c \in FAULT_CLASSES, a \in FAULT_ADDRS}
    \cup {<<c, a, v>> : c \in FAULT_CLASSES, a \in FAULT_ADDRS, v \in FAULT_VALUES}
    \cup {<<c, a, v, d>> : c \in FAULT_CLASSES, a \in FAULT_ADDRS, v \in FAULT_VALUES,
                           d \in FAULT_TYPES}
    \cup {<<c, a, v, d, <<"1">>>> : c \in FAULT_CLASSES, a \in FAULT_ADDRS,
                                    v \in FAULT_VALUES, d \in FAULT_TYPES}

\* value tokens that are words of parse or of parse_int and numerals of a
\* base up to 36, and tokens that are numerals only
NUMERAL_TOKENS == {<<"e">>, <<"o","n">>, <<"o","n","e">>, <<"o","f","f">>, <<"l","o","w">>,
                   <<"p","i">>, <<"m","a","x">>, <<"m","i","n">>,
                   <<"7">>, <<"f","f">>, <<"1","0">>, <<"z","z">>, <<"o","m">>}

\* ao lines with such a value, without a data type and with u16b
NumeralPieces ==
    {<<<<"a","o">>, <<"0">>, v>> : v \in NUMERAL_TOKENS}
    \cup {<<<<"a","o">>, <<"0">>, v, <<"u","1","6","b">>>> : v \in NUMERAL_TOKENS}

\* --address-base and --value-base of the calls
PARSE_BASES == {<<0, 0>>, <<10, 16>>, <<10, 36>>}

\* a call InputParser::parse(line, base_addr, base_value, verbose) is about to be made
InitParse ==
    /\ \E b \in PARSE_BASES : base_addr = b[1] /\ base_value = b[2]
    /\ input \in {InputText(p) : p \in FloatLimitPieces \cup FaultPieces \cup NumeralPieces}
    /\ line = LineOf(input)
    /\ host \in HOSTS
    /\ pc = "call"
    /\ result = Throws("")
    /\ k = 0
    /\ shm_do = ZeroCoils(do_elements)
    /\ shm_di = ZeroCoils(di_elements)
    /\ shm_ao = ZeroBytes(ao_elements)
    /\ shm_ai = ZeroBytes(ai_elements)
    /\ diag = <<>>
    /\ wlog = <<>>
    /\ stdin = <<>>
    /\ nread = 0
    /\ PASSTHROUGH = FALSE
    /\ INTERACTIVE = FALSE
    /\ terminate = FALSE
    /\ mutex_m = "free"
    /\ semaphore = "none"
    /\ semaphore_error_counter = 0
    /\ out = <<>>
    /\ main_pc = "poll"
    /\ calls = <<>>

\* InputParser::parse returns or throws
CallParse ==
    /\ pc = "call"
    /\ result' = parse(line, base_addr, base_value, host)
    /\ pc' = "returned"
    /\ UNCHANGED <<input, line, options, k, shm_do, shm_di, shm_ao, shm_ai, diag, wlog,
                   stdin, nread, terminate, mutex_m, semaphore, semaphore_error_counter,
                   out, main_pc, calls>>

NextParse == CallParse

SpecParse == InitParse /\ [][NextParse]_vars

\* the call under test has returned or thrown
Called == pc = "returned"

\* the fields of the line as they were put together
Fields == input.pieces

\* the line is class:0:value:float type with a value out of words
FloatLine(words) ==
    /\ input.family = "text" /\ Len(Fields) = 4
    /\ Fields[1] \in {<<"a","o">>, <<"a","i">>}
    /\ Fields[4] \in FLOAT_TYPES
    /\ Fields[3] \in words

\* C26: the float parsers handle the limit keywords: a line of an ao or ai
\* register with a 32 or 64 bit float data type and the value min, max,
\* epsilon or lowest is accepted and yields the registers of the type (two
\* for 32 bit, four for 64 bit), as the values nan, inf and -inf do.
C26_FloatLimitKeywords ==
    (Called /\ FloatLine(FLOAT_LIMIT_KEYWORDS \cup FLOAT_SPECIALS)) =>
       /\ result.ok
       /\ Len(result.instructions) = Width(Fields[4])

\* nan, inf and -inf are accepted with every float data type
FloatSpecialsAccepted ==
    (Called /\ FloatLine(FLOAT_SPECIALS)) =>
       /\ result.ok
       /\ Len(result.instructions) = Width(Fields[4])

\* min, max, epsilon and lowest are rejected with every float data type
FloatLimitKeywordsRejected ==
    (Called /\ FloatLine(FLOAT_LIMIT_KEYWORDS)) =>
       /\ ~result.ok
       /\ result.what = "Failed to parse value"

\* the faults of a line of FaultPieces, by its tokens
CountFault(p)    == Len(p) < 3 \/ Len(p) > 4
ClassFault(p)    == p[1] = <<"x","x">>
AddressFault(p)  == p[2] = MALFORMED
DiscreteFault(p) == Len(p) = 4 /\ p[1] = <<"d","i">>
TypeFault(p)     == Len(p) = 4 /\ p[4] = UNKNOWN_TYPE
ValueFault(p)    == IF Len(p) = 4 THEN p[3] \in {MALFORMED, <<"7","0","0","0","0">>}
                    ELSE p[3] = MALFORMED

\* the failure the fixed order of the checks reports for the line, "" for none
FirstFault(p) ==
    IF CountFault(p) THEN "The input does not contain the appropriate number of delimiters"
    ELSE IF ClassFault(p) THEN "is not a valid register type"
    ELSE IF AddressFault(p) THEN "Failed to parse address"
    ELSE IF DiscreteFault(p) THEN "Data type specification for coils is not allowed"
    ELSE IF TypeFault(p) THEN "Unknown data type"
    ELSE IF ValueFault(p) THEN "Failed to parse value"
    ELSE ""

\* C27: of several faults of a line the first in this order is reported:
\* wrong number of fields; invalid register class; malformed address; then,
\* with 4 fields, a data type on a discrete class, an unknown data type
\* identifier, a malformed or out-of-range value, and with 3 fields a
\* malformed value.  A line is accepted exactly when it has none of them.
C27_FirstFaultReported ==
    (Called /\ Fields \in FaultPieces) =>
       /\ result.ok <=> FirstFault(Fields) = ""
       /\ result.what = FirstFault(Fields)

\* ao:0:12?:u9, an unknown data type in front of a malformed value, was
\* rejected as an unknown data type
C27_Witness ==
    /\ Called
    /\ Fields = <<<<"a","o">>, <<"0">>, MALFORMED, UNKNOWN_TYPE>>
    /\ result.what = "Unknown data type"

\* xx:12?:12?:u9:1, a line with every fault, was rejected for its field count
AllFaultsLine ==
    /\ Called
    /\ Fields = <<<<"x","x">>, MALFORMED, MALFORMED, UNKNOWN_TYPE, <<"1">>>>
    /\ result.what = "The input does not contain the appropriate number of delimiters"

\* the base a value token without prefix is read in
EffectiveBase == IF base_value = 0 THEN 10 ELSE base_value

\* the token is a numeral of base b: digits of that base only
IsNumeralIn(v, b) == v /= <<>> /\ \A i \in 1..Len(v) : IsDigitIn(v[i], b)

\* the number a numeral of base b denotes
RECURSIVE NumeralValue(_, _)
NumeralValue(v, b) ==
    IF v = <<>> THEN 0
    ELSE NumeralValue(SubSeq(v, 1, Len(v) - 1), b) * b + DigitValue(v[Len(v)])

\* the Instruction value that puts the 16 bit number n into memory in big
\* endian order on this host
BigEndianWord(n) == IF host = "big" THEN n ELSE (n % 256) * 256 + (n \div 256)

\* the line is ao:0:value or ao:0:value:u16b with a numeral of the value base
\* that is below 2^16
NumeralLine ==
    /\ Fields \in NumeralPieces
    /\ IsNumeralIn(Fields[3], EffectiveBase)
    /\ NumeralValue(Fields[3], EffectiveBase) < 65536

\* the line was accepted as one register with the number its value denotes
NumeralTaken ==
    /\ result.ok
    /\ Len(result.instructions) = 1
    /\ result.instructions[1].value =
          IF Len(Fields) = 3 THEN NumeralValue(Fields[3], EffectiveBase)
          ELSE BigEndianWord(NumeralValue(Fields[3], EffectiveBase))

\* C28: keyword handling never changes the meaning of a numeral: under every
\* value base, a value token that is a numeral of that base (e in base 16;
\* on, max in base 36) is taken as that numeral, and the register value is
\* the number it denotes.
C28_NumeralsKeepMeaning == (Called /\ NumeralLine) => NumeralTaken

\* the words of parse and of parse_int among the value tokens
ValueWords == KEYWORDS \cup IntKeywords

\* a numeral that is no word of parse keeps its meaning, and so does, without
\* a data type, one that is no word of parse but one of parse_int
NumeralsOutsideWords ==
    (Called /\ NumeralLine /\ Fields[3] \notin
        (IF Len(Fields) = 3 THEN KEYWORDS ELSE ValueWords)) => NumeralTaken

\* a numeral that is a word is never taken as the numeral
WordsOverrideNumerals ==
    (Called /\ NumeralLine /\ Fields[3] \in
        (IF Len(Fields) = 3 THEN KEYWORDS ELSE ValueWords)) => ~NumeralTaken

\* ao:0:on under value base 36, where on denotes 887, was written as 1
OnInBase36 ==
    /\ Called /\ base_value = 36
    /\ Fields = <<<<"a","o">>, <<"0">>, <<"o","n">>>>
    /\ result.ok /\ result.instructions[1].value = 1

(***************************************************************************)
(* split_string on its own: one call per behaviour, one step per pass      *)
(* through its loop                                                        *)
(***************************************************************************)
\* longest text handed to split_string
MaxText == 5

\* the texts: every string of a and ':' up to that length
SPLIT_TEXTS == UNION {[1..n -> {"a", ":"}] : n \in 0..MaxText}

\* the delimiters: one character, two equal ones, two different ones
SPLIT_DELIMITERS == {<<":">>, <<":", ":">>, <<"a", ":">>}

\* the values of max_split
SPLIT_COUNTS == {0, 1, 2, MAX_SPLIT_DEFAULT}

\* split_string(text, delimiter, max_split) has been entered: line is the
\* parameter string, k is max_split, result.ret the vector split_string
InitSplit ==
    /\ \E t \in SPLIT_TEXTS, d \in SPLIT_DELIMITERS, n \in SPLIT_COUNTS :
          /\ input = [family |-> "split", text |-> t, delimiter |-> d, max_split |-> n]
          /\ line = t
          /\ k = n
    /\ pc = "loop"
    /\ result = [ok |-> FALSE, ret |-> <<>>]
    /\ base_addr = 0
    /\ base_value = 0
    /\ host = "little"
    /\ shm_do = ZeroCoils(do_elements)
    /\ shm_di = ZeroCoils(di_elements)
    /\ shm_ao = ZeroBytes(ao_elements)
    /\ shm_ai = ZeroBytes(ai_elements)
    /\ diag = <<>>
    /\ wlog = <<>>
    /\ stdin = <<>>
    /\ nread = 0
    /\ PASSTHROUGH = FALSE
    /\ INTERACTIVE = FALSE
    /\ terminate = FALSE
    /\ mutex_m = "free"
    /\ semaphore = "none"
    /\ semaphore_error_counter = 0
    /\ out = <<>>
    /\ main_pc = "poll"
    /\ calls = <<>>

\* one pass through while (max_split && (pos = string.find(delimiter)) != npos)
SplitLoop ==
    /\ pc = "loop"
    /\ k /= 0 /\ find(line, input.delimiter) /= npos
    /\ result' = [result EXCEPT !.ret = Append(@, substr0(line, find(line, input.delimiter)))]
    /\ line' = erase0(line, find(line, input.delimiter) + Len(input.delimiter))
    /\ k' = k - 1
    /\ UNCHANGED <<input, options, pc, shm_do, shm_di, shm_ao, shm_ai, diag, wlog, stdin,
                   nread, terminate, mutex_m, semaphore, semaphore_error_counter, out,
                   main_pc, calls>>

\* the loop ends: if (!string.empty()) emplace_back(string); return
SplitReturn ==
    /\ pc = "loop"
    /\ ~(k /= 0 /\ find(line, input.delimiter) /= npos)
    /\ result' = [ok |-> TRUE, ret |-> IF line /= <<>> THEN Append(result.ret, line)
                                       ELSE result.ret]
    /\ pc' = "returned"
    /\ UNCHANGED <<input, line, options, k, shm_do, shm_di, shm_ao, shm_ai, diag, wlog,
                   stdin, nread, terminate, mutex_m, semaphore, semaphore_error_counter,
                   out, main_pc, calls>>

NextSplit == SplitLoop \/ SplitReturn

\* the call runs on: a statement that can be executed is executed
SpecSplit == InitSplit /\ [][NextSplit]_vars /\ WF_vars(NextSplit)

\* the elements joined with the delimiter between them
RECURSIVE JoinWith(_, _)
JoinWith(fields, d) ==
    IF fields = <<>> THEN <<>>
    ELSE IF Len(fields) = 1 THEN fields[1]
    ELSE fields[1] \o d \o JoinWith(Tail(fields), d)

\* what split_string has returned for the text T, the delimiter d and n splits
SplitResult(T, d, n, R) ==
    \* at most n splits, so at most n + 1 elements
    /\ n >= 0 => Len(R) <= n + 1
    \* joined with d the elements give the text, up to one trailing d
    /\ JoinWith(R, d) = T \/ JoinWith(R, d) \o d = T
    \* every element in front of the last lies between two occurrences of d,
    \* and so does the last unless the splits were used up
    /\ \A i \in 1..(Len(R) - 1) : find(R[i], d) = npos
    /\ (n < 0 \/ Len(R) <= n) => \A i \in 1..Len(R) : find(R[i], d) = npos
    \* the first split is made at the leftmost occurrence
    /\ (n /= 0 /\ find(T, d) /= npos) => (R /= <<>> /\ Len(R[1]) = find(T, d))
    \* the remainder is left out only when it is empty
    /\ (R /= <<>> /\ JoinWith(R, d) = T) => R[Len(R)] /= <<>>
    /\ R = <<>> => (T = <<>> \/ T = d)
    \* the function computed in one piece gives the same
    /\ R = split_string(T, d, n)

\* C29: split_string(text, d, n) with a non-empty delimiter returns, in
\* order, the stretches of text between successive leftmost occurrences of
\* d, with at most n splits: empty fields at the start and inside are kept,
\* the remainder is the last element and is left out only when it is empty,
\* the result has at most n + 1 elements and, joined with d, gives the text
\* up to one dropped trailing d; every pass through the loop shortens the
\* string, and the call returns.
C29_SplitString ==
    /\ [](pc = "returned" =>
            SplitResult(input.text, input.delimiter, input.max_split, result.ret))
    /\ [][pc' = "loop" => Len(line') < Len(line)]_vars
    /\ <>(pc = "returned")

\* ":a::" was split at ':' into an empty field, a, and an empty field, the
\* empty remainder left out
C29_Witness ==
    /\ pc = "returned"
    /\ input.text = <<":", "a", ":", ":">>
    /\ input.delimiter = <<":">>
    /\ input.max_split = MAX_SPLIT_DEFAULT
    /\ result.ret = <<<<>>, <<"a">>, <<>>>>

\* "a:a:a" was split once: the remainder holds the second delimiter
SplitCountReached ==
    /\ pc = "returned"
    /\ input.text = <<"a", ":", "a", ":", "a">>
    /\ input.delimiter = <<":">>
    /\ input.max_split = 1
    /\ result.ret = <<<<"a">>, <<"a", ":", "a">>>>

(***************************************************************************)
(* Termination from outside: a signal, or the Modbus client is gone        *)
(***************************************************************************)
\* the scheduler lets the input thread run as well while it is within its
\* section: the timed wait for the semaphore returns (acquired or timed out),
\* the writer loop goes on and the section is left.  Reading a line and taking
\* the mutex are not fair: the thread may block in both
SpecFair ==
    SpecLive /\ WF_vars(SemaphoreWait \/ SemaphoreTimeout)
             /\ WF_vars(WriteDO \/ WriteDI \/ WriteAO \/ WriteAI)
             /\ WF_vars(EndOfLine)

\* a termination signal is handled, or main finds the Modbus client gone
ExternalTermination == SignalHandler \/ MainClientGone

\* the input thread is blocked in getline with input still to come
WaitingForLine == pc = "read" /\ nread < Len(stdin)

\* the input thread is retrying the semaphore, the mutex in its hand
RetryingSemaphore == pc = "wait" /\ semaphore_error_counter > 0

MainWaitsForRetry ==
    /\ main_pc = "lock"
    /\ terminate
    /\ RetryingSemaphore
    /\ mutex_m = "input"

\* without fairness of the steps within the section main may wait for ever
TerminationWithoutSectionFairness == terminate ~> MainHasReturned

====
